---- MODULE Spec2Model ----
(***************************************************************************)
(* hwmon: an always-on-top hardware monitor overlay.                       *)
(*                                                                         *)
(* The module models                                                       *)
(*   - hwmon/window.py   OverlayWindow: drag, snap, monitor picking        *)
(*   - hwmon/main.py     MonitorApp: refresh loop, exit, minimize/restore  *)
(*   - hwmon/sensors.py  SensorBackend: sensor sampling, GPU fallback      *)
(*   - hwmon/network.py  NetworkBackend: network totals                    *)
(*   - hwmon/pdh_counters.py  PDHQuery: counters and their reads           *)
(*   - hwmon/components.py    the graph components' sample buffers         *)
(*                                                                         *)
(* A Python float is an exact fraction <<n, d>> in lowest terms, d > 0     *)
(* (rounding is not modelled).                                             *)
(* Python's None is the empty tuple; an optional record is None or <<m>>.  *)
(*                                                                         *)
(* Specifications (each has its own Init; the variables of the other       *)
(* parts stay at their idle values; SpecWin and SpecPoll share the built   *)
(* application, SpecWin starting once start() has entered the main loop):  *)
(*   SpecSnap     _apply_snap applied to drawn arguments                   *)
(*   SpecPick     _pick_monitor applied to drawn arguments                 *)
(*   SpecDrag     _on_drag on drawn fields, then _on_release               *)
(*   SpecPdh      a PDHQuery: add_counter, get_value, get_array, get_dict  *)
(*   SpecBuild    import hwmon.sensors, then SensorBackend()               *)
(*   SpecComp     one graph component: add_sample() and update() calls     *)
(*   SpecSensors  SensorBackend built, then sample() called repeatedly     *)
(*   SpecNet      NetworkBackend built, then sample() called               *)
(*   SpecWin      the overlay window under mouse presses, drags, releases  *)
(*   SpecPoll     the refresh loop and the exit from the context menu      *)
(*   FairPoll     SpecPoll, with Tk firing every timer that stays pending  *)
(***************************************************************************)
EXTENDS Integers, Sequences, FiniteSets, TLC

VARIABLES
    snapIn,     \* arguments of one _apply_snap call: [x, y, w, h, work_rect]
    snapOut,    \* Pending, or Returned(<<x, y, target>>)
    pickIn,     \* arguments of one _pick_monitor call: [monitors, px, py]
    pickOut,    \* Pending, or Returned(None) / Returned(<<monitor>>)
    sensors,    \* SensorBackend fields: [nvapi, amdadl, counters, gpu_usage_names]
    hw,         \* what the drivers and PDH answer at present
    metrics,    \* the dict sample() returned for hw, None until it is called
    net,        \* NetworkBackend fields: [counters]
    netHw,      \* what PDH answers for the two network counters
    netOut,     \* Pending, or how NetworkBackend.sample() ended
    root,       \* the Tk toplevel's geometry: [x, y, w, h]
    timeFrame,  \* the time strip's frame as Tk reports it: [reqheight, height]
    visible,    \* the components that are shown (packed)
    win,        \* OverlayWindow fields: [drag_off_x, drag_off_y, drag_start_x,
                \*   drag_start_y, monitors, snap_target,
                \*   last_released_snap_target]
    app,        \* MonitorApp fields: [minimized, restore_size, after_id, exiting]
    disp,       \* Tk's event dispatch: [phase, widget, generated]; phase is
                \*   "idle", "down" (button 1 held), or the release handler
                \*   still to run: "time_release", "container_release";
                \*   generated tells whether the handler that ran last
                \*   generated <<WindowSnapChanged>>
    clickParity,\* history: qualifying time-strip clicks (mod 2) since the
                \*   window was last restored by another handler
    comps,      \* the graph components' fields, by name ("cpu", "gpu"):
                \*   [samples, usage_samples, history, sample_count]
    timers,     \* Tk's pending after() timers: a set of [id, cb]
    mainloop,   \* "not_started", "running", or "quit" (mainloop returned)
    exitChosen, \* history: Exit was chosen in the context menu
    comp,       \* one graph component on its own: [samples, usage_samples,
                \*   history, sample_count, ...]
    compOut,    \* Pending, or what its last update() call did:
                \*   Returned([returns, refreshed])
    compCalls,  \* history: update() calls since the last refresh
    compRecent, \* history: the non-None temperatures added so far, the
                \*   most recent sample_window of them
    dragIn,     \* a motion event on its own: [w, r, ex, ey], the
                \*   OverlayWindow fields, the geometry and the pointer
    dragOut,    \* Pending, or Returned(what _on_drag left: [win, root])
    relOut,     \* Pending, or Returned(what _on_release at the same pointer
                \*   then left: [win, generated])
    pdhQuery,   \* a PDHQuery on its own: [counters], the registered keys
    pdhIn,      \* its last call: [op, key, answer, before], with what PDH
                \*   answered and the keys registered before the call
    pdhOut,     \* Pending, or Returned(what the call returned)
    build       \* a program that imports hwmon.sensors and constructs a
                \*   SensorBackend: [env, out], out being Pending,
                \*   Returned(the backend) or Raised(the exception)

vars == <<snapIn, snapOut, pickIn, pickOut, sensors, hw, metrics,
          net, netHw, netOut, root, timeFrame, visible, win, app, disp,
          clickParity, comps, timers, mainloop, exitChosen,
          comp, compOut, compCalls, compRecent, dragIn, dragOut, relOut,
          pdhQuery, pdhIn, pdhOut, build>>

pdhVars == <<pdhQuery, pdhIn, pdhOut>>

buildVars == <<build>>

compVars == <<comp, compOut, compCalls, compRecent>>

pollVars == <<comps, timers, mainloop, exitChosen>>

winVars == <<root, timeFrame, visible, win, app, disp, clickParity>>

netVars == <<net, netHw, netOut>>

winFnVars == <<snapIn, snapOut, pickIn, pickOut, dragIn, dragOut, relOut>>

sensorVars == <<sensors, hw, metrics>>

None == <<>>

\* F applied to the value of v (v is evaluated once, however often F uses it)
With(v, F(_)) == CHOOSE r \in {F(x) : x \in {v}} : TRUE

\* the state of one call of a function: not made yet, or returned v
Pending == <<"pending">>

Returned(v) == <<"returned", v>>

\* ... or ended with an exception of class e
Raised(e) == <<"raised", e>>

----------------------------------------------------------------------------
(* Arithmetic helpers (Python builtins)                                    *)

Abs(n) == IF n < 0 THEN -n ELSE n

Min(a, b) == IF a <= b THEN a ELSE b

Max(a, b) == IF a >= b THEN a ELSE b

----------------------------------------------------------------------------
(* hwmon/window.py: constants and pure geometry                            *)

SNAP_PX == 16

SnapTarget ==
    {"none", "left", "right", "top", "bottom",
     "topleft", "topright", "bottomleft", "bottomright"}

\* Monitor(monitor_rect, work_rect); a rect is <<left, top, right, bottom>>
Monitor(mr, wr) == [monitor_rect |-> mr, work_rect |-> wr]

_contains_point(left, top, right, bottom, px, py) ==
    /\ left <= px /\ px <= right
    /\ top <= py /\ py <= bottom

_dist2_to_rect(left, top, right, bottom, px, py) ==
    LET cx == Min(Max(px, left), right)
        cy == Min(Max(py, top), bottom)
        dx == px - cx
        dy == py - cy
    IN  dx * dx + dy * dy

\* the mutant of _pick_monitor's scan: a later monitor wins a tie
BestOf_LastTie(candidates, px, py) ==
    LET Dist(m) == _dist2_to_rect(m.monitor_rect[1], m.monitor_rect[2],
                                  m.monitor_rect[3], m.monitor_rect[4], px, py)
        Scan[i \in 1..Len(candidates)] ==
            IF i = 1 THEN candidates[1]
            ELSE IF Dist(candidates[i]) <= Dist(Scan[i - 1])
                 THEN candidates[i] ELSE Scan[i - 1]
    IN  Scan[Len(candidates)]

\* lines 226-233: best = candidates[0]; a later one replaces it only when
\* strictly nearer
BestOf(candidates, px, py) ==
    LET Dist(m) == _dist2_to_rect(m.monitor_rect[1], m.monitor_rect[2],
                                  m.monitor_rect[3], m.monitor_rect[4], px, py)
        Scan[i \in 1..Len(candidates)] ==
            IF i = 1 THEN candidates[1]
            ELSE IF Dist(candidates[i]) < Dist(Scan[i - 1])
                 THEN candidates[i] ELSE Scan[i - 1]
    IN  Scan[Len(candidates)]

_pick_monitor(monitors, px, py) ==
    IF monitors = <<>> THEN None
    ELSE
      LET Inside(m) == _contains_point(m.monitor_rect[1], m.monitor_rect[2],
                                       m.monitor_rect[3], m.monitor_rect[4],
                                       px, py)
          contained == SelectSeq(monitors, Inside)
          candidates == IF contained # <<>> THEN contained ELSE monitors
      IN  <<BestOf(candidates, px, py)>>

\* the mutant of _apply_snap: the snap distance is exclusive
_apply_snap_exclusive(x, y, w, h, work_rect) ==
    LET left == work_rect[1]
        top == work_rect[2]
        right == work_rect[3]
        bottom == work_rect[4]
        dl == Abs(x - left)
        dr == Abs((x + w) - right)
        dt == Abs(y - top)
        db == Abs((y + h) - bottom)
        snap_x == IF dl < SNAP_PX /\ dl <= dr THEN "left"
                  ELSE IF dr < SNAP_PX THEN "right" ELSE "None"
        snap_y == IF dt < SNAP_PX /\ dt <= db THEN "top"
                  ELSE IF db < SNAP_PX THEN "bottom" ELSE "None"
        nx == CASE snap_x = "left" -> left
                [] snap_x = "right" -> right - w
                [] OTHER -> x
        ny == CASE snap_y = "top" -> top
                [] snap_y = "bottom" -> bottom - h
                [] OTHER -> y
        target ==
            IF snap_x # "None" /\ snap_y # "None"
            THEN IF snap_y = "top" /\ snap_x = "left" THEN "topleft"
                 ELSE IF snap_y = "top" /\ snap_x = "right" THEN "topright"
                 ELSE IF snap_y = "bottom" /\ snap_x = "left" THEN "bottomleft"
                 ELSE "bottomright"
            ELSE IF snap_x # "None" THEN snap_x
            ELSE IF snap_y # "None" THEN snap_y
            ELSE "none"
    IN  <<nx, ny, target>>

\* mutant: on a tie the right and bottom edges win
_apply_snap_far_tie(x, y, w, h, work_rect) ==
    LET left == work_rect[1]
        top == work_rect[2]
        right == work_rect[3]
        bottom == work_rect[4]
        dl == Abs(x - left)
        dr == Abs((x + w) - right)
        dt == Abs(y - top)
        db == Abs((y + h) - bottom)
        snap_x == IF dl <= SNAP_PX /\ dl < dr THEN "left"
                  ELSE IF dr <= SNAP_PX THEN "right" ELSE "None"
        snap_y == IF dt <= SNAP_PX /\ dt < db THEN "top"
                  ELSE IF db <= SNAP_PX THEN "bottom" ELSE "None"
        nx == CASE snap_x = "left" -> left
                [] snap_x = "right" -> right - w
                [] OTHER -> x
        ny == CASE snap_y = "top" -> top
                [] snap_y = "bottom" -> bottom - h
                [] OTHER -> y
        target ==
            IF snap_x # "None" /\ snap_y # "None"
            THEN IF snap_y = "top" /\ snap_x = "left" THEN "topleft"
                 ELSE IF snap_y = "top" /\ snap_x = "right" THEN "topright"
                 ELSE IF snap_y = "bottom" /\ snap_x = "left" THEN "bottomleft"
                 ELSE "bottomright"
            ELSE IF snap_x # "None" THEN snap_x
            ELSE IF snap_y # "None" THEN snap_y
            ELSE "none"
    IN  <<nx, ny, target>>

\* mutant: an edge the window already touches is not snapped to
_apply_snap_moving_only(x, y, w, h, work_rect) ==
    LET left == work_rect[1]
        top == work_rect[2]
        right == work_rect[3]
        bottom == work_rect[4]
        dl == Abs(x - left)
        dr == Abs((x + w) - right)
        dt == Abs(y - top)
        db == Abs((y + h) - bottom)
        snap_x == IF 0 < dl /\ dl <= SNAP_PX /\ dl <= dr THEN "left"
                  ELSE IF 0 < dr /\ dr <= SNAP_PX THEN "right" ELSE "None"
        snap_y == IF 0 < dt /\ dt <= SNAP_PX /\ dt <= db THEN "top"
                  ELSE IF 0 < db /\ db <= SNAP_PX THEN "bottom" ELSE "None"
        nx == CASE snap_x = "left" -> left
                [] snap_x = "right" -> right - w
                [] OTHER -> x
        ny == CASE snap_y = "top" -> top
                [] snap_y = "bottom" -> bottom - h
                [] OTHER -> y
        target ==
            IF snap_x # "None" /\ snap_y # "None"
            THEN IF snap_y = "top" /\ snap_x = "left" THEN "topleft"
                 ELSE IF snap_y = "top" /\ snap_x = "right" THEN "topright"
                 ELSE IF snap_y = "bottom" /\ snap_x = "left" THEN "bottomleft"
                 ELSE "bottomright"
            ELSE IF snap_x # "None" THEN snap_x
            ELSE IF snap_y # "None" THEN snap_y
            ELSE "none"
    IN  <<nx, ny, target>>

_apply_snap(x, y, w, h, work_rect) ==
    LET left == work_rect[1]
        top == work_rect[2]
        right == work_rect[3]
        bottom == work_rect[4]
        dl == Abs(x - left)
        dr == Abs((x + w) - right)
        dt == Abs(y - top)
        db == Abs((y + h) - bottom)
        snap_x == IF dl <= SNAP_PX /\ dl <= dr THEN "left"
                  ELSE IF dr <= SNAP_PX THEN "right" ELSE "None"
        snap_y == IF dt <= SNAP_PX /\ dt <= db THEN "top"
                  ELSE IF db <= SNAP_PX THEN "bottom" ELSE "None"
        nx == CASE snap_x = "left" -> left
                [] snap_x = "right" -> right - w
                [] OTHER -> x
        ny == CASE snap_y = "top" -> top
                [] snap_y = "bottom" -> bottom - h
                [] OTHER -> y
        target ==
            IF snap_x # "None" /\ snap_y # "None"
            THEN IF snap_y = "top" /\ snap_x = "left" THEN "topleft"
                 ELSE IF snap_y = "top" /\ snap_x = "right" THEN "topright"
                 ELSE IF snap_y = "bottom" /\ snap_x = "left" THEN "bottomleft"
                 ELSE "bottomright"
            ELSE IF snap_x # "None" THEN snap_x
            ELSE IF snap_y # "None" THEN snap_y
            ELSE "none"
    IN  <<nx, ny, target>>

----------------------------------------------------------------------------
(* Floats as fractions                                                     *)

\* (the helpers that recurse or nest are functions, applied to values)
GCD[a \in Nat, b \in Nat] == IF b = 0 THEN a ELSE GCD[b, a % b]

\* n / d in lowest terms (d > 0)
Frac[n \in Int, d \in Nat] ==
    LET g == GCD[Abs(n), d] IN <<n \div g, d \div g>>

FAdd[a \in Int \X Int, b \in Int \X Int] ==
    Frac[a[1] * b[2] + b[1] * a[2], a[2] * b[2]]

FSub(a, b) == Frac[a[1] * b[2] - b[1] * a[2], a[2] * b[2]]

FLess(a, b) == a[1] * b[2] < b[1] * a[2]

FMin(a, b) == IF FLess(b, a) THEN b ELSE a

FMax(a, b) == IF FLess(a, b) THEN b ELSE a

FSum[s \in Seq(Int \X Int)] ==
    IF s = <<>> THEN <<0, 1>> ELSE FAdd[s[1], FSum[Tail(s)]]

\* sum(s) / len(s), for a non-empty list
FMean[s \in Seq(Int \X Int)] ==
    LET t == FSum[s] IN Frac[t[1], t[2] * Len(s)]

----------------------------------------------------------------------------
(* hwmon/pdh_counters.py: PDHQuery                                         *)

ERROR_SUCCESS == 0

\* What PDH answers for one counter during a sample: [ok, items]; ok is
\* FALSE when PdhGetFormattedCounterArray fails; an item is
\* [szName, CStatus, doubleValue].
PdhItem(name, cstatus, value) ==
    [szName |-> name, CStatus |-> cstatus, doubleValue |-> value]

\* str.lower() on the instance names that occur
Lower(name) ==
    CASE name = "TZ.CPU0" -> "tz.cpu0"
      [] name = "TZ.THM0" -> "tz.thm0"
      [] OTHER -> name

\* _get_base_array: (item_count, items); (0, none) for an unregistered key
\* or a failed read
_get_base_array(counters, pdh, key) ==
    IF key \notin counters THEN <<>>
    ELSE IF ~pdh[key].ok THEN <<>>
    ELSE pdh[key].items

\* PDHQuery.__init__ (PdhOpenQuery succeeded)
PDHQuery_init == [counters |-> {}]

\* add_counter, status being what PdhAddEnglishCounter returns: the query
\* afterwards and the handle returned (None on failure)
add_counter(q, key, status) ==
    IF status # ERROR_SUCCESS THEN [query |-> q, returns |-> None]
    ELSE [query |-> [q EXCEPT !.counters = q.counters \cup {key}],
          returns |-> <<key>>]

\* mutant: the items with a failing status are left out
get_array_dropping(counters, pdh, key) ==
    LET items == _get_base_array(counters, pdh, key)
        Good(item) == item.CStatus = ERROR_SUCCESS
        kept == SelectSeq(items, Good)
    IN  [idx \in 1..Len(kept) |-> kept[idx].doubleValue]

get_array(counters, pdh, key) ==
    LET items == _get_base_array(counters, pdh, key)
    IN  [idx \in 1..Len(items) |->
            IF items[idx].CStatus = ERROR_SUCCESS
            THEN items[idx].doubleValue ELSE None]

\* a dict is a list of <<key, value>> with distinct keys, in insertion
\* order; d[k] = v keeps the position of an existing key
DictSet(d, k, v) ==
    IF \E i \in 1..Len(d) : d[i][1] = k
    THEN [i \in 1..Len(d) |-> IF d[i][1] = k THEN <<k, v>> ELSE d[i]]
    ELSE Append(d, <<k, v>>)

DictGet(d, k) ==
    IF \E i \in 1..Len(d) : d[i][1] = k
    THEN d[CHOOSE i \in 1..Len(d) : d[i][1] = k][2]
    ELSE None

get_dict(counters, pdh, key) ==
    LET items == _get_base_array(counters, pdh, key)
        Build[n \in 0..Len(items)] ==
            IF n = 0 THEN <<>>
            ELSE DictSet(Build[n - 1], Lower(items[n].szName),
                         IF items[n].CStatus = ERROR_SUCCESS
                         THEN items[n].doubleValue ELSE None)
    IN  Build[Len(items)]

\* get_value: pdh[key] is [ok, CStatus, doubleValue] for a scalar counter
get_value(counters, pdh, key) ==
    IF key \notin counters THEN None
    ELSE IF ~pdh[key].ok \/ pdh[key].CStatus # ERROR_SUCCESS THEN None
    ELSE pdh[key].doubleValue

----------------------------------------------------------------------------
(* hwmon/nvapi.py, hwmon/amdadl.py: the vendor monitors                    *)

ADL_OK == 0

\* NVAPIGPUMonitor.__init__; env is what loading and initialising nvapi64
\* does: [loaded, init_status, enum_status, gpu_count]. Every exception is
\* swallowed, so the constructor always returns an object.
NVAPIGPUMonitor(env) ==
    IF env.loaded /\ env.init_status = 0 /\ env.enum_status = 0
    THEN [nvapi_available |-> TRUE, gpu_count |-> env.gpu_count]
    ELSE [nvapi_available |-> FALSE, gpu_count |-> 0]

\* ADLGPUMonitor.__init__; env is [loaded, create_status, active]: whether
\* the library and its entry points load, what ADL_Main_Control_Create
\* answers, and how many adapters are present and active. The result is
\* <<"raise", "ADLGPUInitError">> or <<"ok", object>>.
ADLGPUMonitor(env) ==
    IF ~env.loaded THEN <<"raise", "ADLGPUInitError">>
    ELSE IF env.create_status # ADL_OK \/ env.active = 0
    THEN <<"ok", [adl_available |-> FALSE, adapter_count |-> 0]>>
    ELSE <<"ok", [adl_available |-> TRUE, adapter_count |-> env.active]>>

\* NVAPIGPUMonitor.get_temperatures; thermal[i] is what NvAPI_GPU_GetThermal-
\* Settings answers for GPU i: [status, count, currentTemp]
NvGetTemperatures(mon, thermal) ==
    IF ~mon.nvapi_available \/ mon.gpu_count = 0 THEN <<>>
    ELSE LET Ok(r) == r.status = 0 /\ r.count > 0
             good == SelectSeq(thermal, Ok)
         IN  [i \in 1..Len(good) |-> Frac[good[i].currentTemp, 1]]

\* ADLGPUMonitor.get_temperatures; temp[i] is what ADL_Overdrive5_-
\* Temperature_Get answers for adapter i: [status, iTemperature]
AdlGetTemperatures(mon, temp) ==
    IF ~mon.adl_available \/ mon.adapter_count = 0 THEN <<>>
    ELSE LET Celsius(r) == Frac[r.iTemperature, 1000]
             Ok(r) == /\ r.status = ADL_OK
                      /\ FLess(<<0, 1>>, Celsius(r))
                      /\ FLess(Celsius(r), <<150, 1>>)
             good == SelectSeq(temp, Ok)
         IN  [i \in 1..Len(good) |-> Celsius(good[i])]

----------------------------------------------------------------------------
(* hwmon/sensors.py: SensorBackend                                         *)

\* the counter keys SensorBackend registers
SensorKeys == {"cpu_temp", "cpu_usage", "gpu_temp", "gpu_usage"}

\* SensorBackend.__init__; env is [failed_keys, nv, adl]: the keys whose
\* add_counter fails, and what the two vendor libraries do
SensorBackend_init(env) ==
    LET adl == ADLGPUMonitor(env.adl)
    IN  [counters |-> SensorKeys \ env.failed_keys,
         gpu_usage_names |-> {},
         nvapi |-> <<NVAPIGPUMonitor(env.nv)>>,
         amdadl |-> IF adl[1] = "raise" THEN None ELSE <<adl[2]>>]

\* the names a module of the package defines at its top level
ModuleNames(m) ==
    CASE m = "hwmon.amdadl" ->
           {"ctypes", "ADL_OK", "ADL_MAX_PATH", "ADL_MAX_ADAPTERS",
            "ADL_MAX_DISPLAYS", "ADL_MAX_DEVICENAME", "ADLAdapterInfo",
            "ADLTemperature", "ADLPMActivity", "ADL_Main_Memory_Alloc",
            "adl_malloc", "ADLGPUInitError", "ADLGPUMonitor"}
      [] m = "hwmon.nvapi" ->
           {"annotations", "ctypes", "wintypes", "NVAPI_MAX_PHYSICAL_GPUS",
            "NVAPI_MAX_THERMAL_SENSORS_PER_GPU", "NV_THERMAL_SENSOR",
            "NV_GPU_THERMAL_SETTINGS", "NVAPIGPUMonitor"}
      [] m = "hwmon.pdh_counters" ->
           {"ctypes", "_Pointer", "wintypes", "ERROR_SUCCESS",
            "PDH_FMT_DOUBLE", "PDH_MORE_DATA", "PDHError", "fmt_error",
            "PDH_FMT_COUNTERVALUE_DOUBLE", "PDH_FMT_COUNTERVALUE_ITEM_DOUBLE",
            "pdh", "_init_pdh_functions", "PDH", "PDHQuery"}

\* from m import names
ImportFrom(m, names) ==
    IF names \subseteq ModuleNames(m) THEN Returned(names)
    ELSE Raised("ImportError")

\* the import statements of sensors.py (lines 3-5), in order
SensorsImports ==
    <<<<"hwmon.amdadl", {"ADLGPUInitError", "ADLGPUMonitor"}>>,
      <<"hwmon.nvapi", {"NVAPIInitError", "NVAPIGPUMonitor"}>>,
      <<"hwmon.pdh_counters", {"PDHQuery"}>>>>

\* import hwmon.sensors: the first import statement that raises ends it
import_sensors ==
    LET failing == {i \in 1..Len(SensorsImports) :
                      ImportFrom(SensorsImports[i][1], SensorsImports[i][2])
                          = Raised("ImportError")}
    IN  IF failing = {} THEN Returned("hwmon.sensors")
        ELSE Raised("ImportError")

\* 273.15
KelvinOffset == <<5463, 20>>

\* mutant: a reading of exactly 200 counts as Kelvin
to_celsius_inclusive(raw) ==
    IF ~FLess(raw, <<200, 1>>) THEN FSub(raw, KelvinOffset) ELSE raw

to_celsius(raw) ==
    IF FLess(<<200, 1>>, raw) THEN FSub(raw, KelvinOffset) ELSE raw

\* "cpu" in name, on the (lower-cased) thermal zone names that occur
HasCpu(name) == name \in {"tz.cpu0", "tz.cpu1"}

\* the engine filter of _gpu_usage, on the instance names that occur
IsUsageEngine(name) == name \in {"pid_1_engtype_3d", "pid_2_engtype_copy"}

_get_cpu_usage(b, h) ==
    LET value == get_value(b.counters, h.pdh, "cpu_usage")
    IN  IF value = None THEN None
        ELSE FMax(<<0, 1>>, FMin(value, <<100, 1>>))

_cpu_temperature(b, h) ==
    LET readings == get_dict(b.counters, h.pdh, "cpu_temp")
        Truthy(item) == item[2] # None /\ item[2] # <<0, 1>>
        kept == SelectSeq(readings, Truthy)
        temps == [i \in 1..Len(kept) |-> <<kept[i][1], to_celsius(kept[i][2])>>]
        IsCpu(item) == HasCpu(item[1])
        cpus == SelectSeq(temps, IsCpu)
    IN  IF temps = <<>> THEN None
        ELSE IF cpus # <<>> THEN cpus[1][2]
        ELSE FMean[[i \in 1..Len(temps) |-> temps[i][2]]]

\* _gpu_usage: <<result, the new _gpu_usage_names>>
_gpu_usage(b, h) ==
    LET readings == get_dict(b.counters, h.pdh, "gpu_usage")
        Wanted(item) == item[2] # None /\ IsUsageEngine(item[1])
        Known(item) == item[2] # None /\ item[1] \in b.gpu_usage_names
        picked == IF b.gpu_usage_names = {}
                  THEN SelectSeq(readings, Wanted)
                  ELSE SelectSeq(readings, Known)
        values == [i \in 1..Len(picked) |-> picked[i][2]]
        names == IF b.gpu_usage_names = {}
                 THEN {picked[i][1] : i \in 1..Len(picked)}
                 ELSE b.gpu_usage_names
    IN  <<IF values = <<>> THEN None
          ELSE FMax(<<0, 1>>, FMin(FSum[values], <<100, 1>>)),
          names>>

_gpu_temp_nvidia(b, h) ==
    IF b.nvapi = None THEN None
    ELSE LET nvapi_temps == NvGetTemperatures(b.nvapi[1], h.nv)
         IN  IF nvapi_temps # <<>> THEN FMean[nvapi_temps] ELSE None

_gpu_temp_amd(b, h) ==
    IF b.amdadl = None THEN None
    ELSE LET amd_temps == AdlGetTemperatures(b.amdadl[1], h.adl)
         IN  IF amd_temps # <<>> THEN FMean[amd_temps] ELSE None

_gpu_temp_pdh(b, h) ==
    LET readings == get_array(b.counters, h.pdh, "gpu_temp")
        NotNone(v) == v # None
        kept == SelectSeq(readings, NotNone)
        temps == [i \in 1..Len(kept) |-> to_celsius(kept[i])]
    IN  IF temps # <<>> THEN FMean[temps] ELSE None

\* mutant: the AMD source is asked before the NVIDIA one
_gpu_temperature_amd_first(b, h) ==
    IF _gpu_temp_amd(b, h) # None THEN _gpu_temp_amd(b, h)
    ELSE IF _gpu_temp_nvidia(b, h) # None THEN _gpu_temp_nvidia(b, h)
    ELSE IF _gpu_temp_pdh(b, h) # None THEN _gpu_temp_pdh(b, h)
    ELSE None

\* mutant: a source counts only when its temperature is truthy
_gpu_temperature_truthy(b, h) ==
    LET Falsy(t) == t = None \/ t = <<0, 1>>
    IN  IF ~Falsy(_gpu_temp_nvidia(b, h)) THEN _gpu_temp_nvidia(b, h)
        ELSE IF ~Falsy(_gpu_temp_amd(b, h)) THEN _gpu_temp_amd(b, h)
        ELSE IF ~Falsy(_gpu_temp_pdh(b, h)) THEN _gpu_temp_pdh(b, h)
        ELSE None

_gpu_temperature(b, h) ==
    IF _gpu_temp_nvidia(b, h) # None THEN _gpu_temp_nvidia(b, h)
    ELSE IF _gpu_temp_amd(b, h) # None THEN _gpu_temp_amd(b, h)
    ELSE IF _gpu_temp_pdh(b, h) # None THEN _gpu_temp_pdh(b, h)
    ELSE None

\* sample(): the returned dict
sample(b, h) ==
    [cpu_temp |-> _cpu_temperature(b, h),
     cpu_usage |-> _get_cpu_usage(b, h),
     gpu_temp |-> _gpu_temperature(b, h),
     gpu_usage |-> _gpu_usage(b, h)[1]]

----------------------------------------------------------------------------
(* hwmon/network.py: NetworkBackend                                        *)

NetKeys == {"bytes_recv", "bytes_sent"}

\* NetworkBackend.__init__; failed_keys are the keys whose add_counter fails
NetworkBackend_init(failed_keys) == [counters |-> NetKeys \ failed_keys]

\* _get_total_bytes. get_array returns a list of float | None, and the loop
\* header `for name, value in readings` unpacks each element into two names:
\* the first element, a float or None, raises TypeError. Only an empty list
\* gets past the loop, and then count is 0.
_get_total_bytes(b, h, key) ==
    LET readings == get_array(b.counters, h, key)
    IN  IF Len(readings) > 0 THEN Raised("TypeError")
        ELSE Returned(None)

\* NetworkBackend.sample(): the dict, or the exception that leaves it
NetworkBackend_sample(b, h) ==
    LET net_in == _get_total_bytes(b, h, "bytes_recv")
        net_out == _get_total_bytes(b, h, "bytes_sent")
    IN  IF net_in[1] = "raised" THEN net_in
        ELSE IF net_out[1] = "raised" THEN net_out
        ELSE Returned([net_in |-> net_in[2], net_out |-> net_out[2]])

----------------------------------------------------------------------------
(* hwmon/window.py: OverlayWindow event handlers                           *)

\* OverlayWindow.__init__ (lines 107-114)
OverlayWindow_init ==
    [drag_off_x |-> 0, drag_off_y |-> 0,
     drag_start_x |-> 0, drag_start_y |-> 0,
     monitors |-> <<>>,
     snap_target |-> "none",
     last_released_snap_target |-> "none",
     exit_callback |-> None]

\* set_exit_callback; callback is the name of the bound method
set_exit_callback(w, callback) == [w EXCEPT !.exit_callback = <<callback>>]

\* root.after(ms, cb) on the pending timers tm: Tk hands out an id that no
\* pending timer and no id still held (used) has; the result is <<id, tm'>>
after(tm, used, cb) ==
    LET free == {n \in 0..(Cardinality(tm) + Cardinality(used)) :
                    n \notin used /\ \A t \in tm : t.id # n}
        id == CHOOSE n \in free : \A m \in free : n <= m
    IN  <<id, tm \cup {[id |-> id, cb |-> cb]}>>

\* root.after_cancel(id): nothing happens when the timer has fired already
after_cancel(tm, id) == {t \in tm : t.id # id}

\* _on_exit_menu, the command of the context menu's Exit entry
_on_exit_menu(w, tm, used) ==
    IF w.exit_callback # None THEN after(tm, used, w.exit_callback[1])[2]
    ELSE tm

\* mutant: no fallback monitor when the enumeration delivers nothing
_refresh_monitor_cache_bare(enumerated, screen) == enumerated

\* _refresh_monitor_cache; enumerated is what EnumDisplayMonitors and
\* GetMonitorInfoW delivered (<<>> when the enumeration fails or yields
\* nothing), screen is <<winfo_screenwidth, winfo_screenheight>>
_refresh_monitor_cache(enumerated, screen) ==
    IF enumerated = <<>>
    THEN <<Monitor(<<0, 0, screen[1], screen[2]>>, <<0, 0, screen[1], screen[2]>>)>>
    ELSE enumerated

\* _start_drag, for a press at (ex, ey) with the window geometry r
_start_drag(w, r, ex, ey, enumerated, screen) ==
    [w EXCEPT !.drag_off_x = ex - r.x,
              !.drag_off_y = ey - r.y,
              !.drag_start_x = r.x,
              !.drag_start_y = r.y,
              !.monitors = _refresh_monitor_cache(enumerated, screen)]

\* mutant: the window's corner is put under the pointer
_on_drag_at_pointer(w, r, ex, ey) ==
    LET x == ex
        y == ey
        monitor == _pick_monitor(w.monitors, ex, ey)
        snapped == IF monitor # None
                   THEN _apply_snap(x, y, r.w, r.h, monitor[1].work_rect)
                   ELSE <<x, y, "none">>
    IN  [win |-> [w EXCEPT !.snap_target = snapped[3]],
         root |-> [r EXCEPT !.x = snapped[1], !.y = snapped[2]]]

\* _on_drag, for a motion to (ex, ey): the new OverlayWindow fields and the
\* new geometry
_on_drag(w, r, ex, ey) ==
    LET x == ex - w.drag_off_x
        y == ey - w.drag_off_y
        monitor == _pick_monitor(w.monitors, ex, ey)
        snapped == IF monitor # None
                   THEN _apply_snap(x, y, r.w, r.h, monitor[1].work_rect)
                   ELSE <<x, y, "none">>
    IN  [win |-> [w EXCEPT !.snap_target = snapped[3]],
         root |-> [r EXCEPT !.x = snapped[1], !.y = snapped[2]]]

\* mutant: every release generates <<WindowSnapChanged>>
_on_release_always(w, r, ex, ey) ==
    LET monitor == _pick_monitor(w.monitors, ex, ey)
        target == IF monitor = None THEN "none"
                  ELSE _apply_snap(r.x, r.y, r.w, r.h, monitor[1].work_rect)[3]
    IN  [win |-> [w EXCEPT !.snap_target = target,
                           !.last_released_snap_target = target],
         generated |-> TRUE]

\* _on_release, for a release at (ex, ey): the new OverlayWindow fields and
\* whether <<WindowSnapChanged>> is generated
_on_release(w, r, ex, ey) ==
    LET monitor == _pick_monitor(w.monitors, ex, ey)
        target == IF monitor = None THEN "none"
                  ELSE _apply_snap(r.x, r.y, r.w, r.h, monitor[1].work_rect)[3]
        changed == target # w.last_released_snap_target
    IN  [win |-> [w EXCEPT !.snap_target = target,
                           !.last_released_snap_target =
                               IF changed THEN target ELSE @],
         generated |-> changed]

\* mutant: a move of exactly threshold pixels still counts as a click
was_click_inclusive(w, r, threshold) ==
    /\ Abs(r.x - w.drag_start_x) <= threshold
    /\ Abs(r.y - w.drag_start_y) <= threshold

was_click(w, r, threshold) ==
    /\ Abs(r.x - w.drag_start_x) < threshold
    /\ Abs(r.y - w.drag_start_y) < threshold

\* the default of was_click's threshold parameter
DefaultThreshold == 3

----------------------------------------------------------------------------
(* hwmon/main.py: MonitorApp, minimize and restore                         *)
(* The handlers work on st = [app, root, visible].                         *)

Components == {"cpu", "gpu", "time"}

TopTargets == {"top", "topleft", "topright"}

\* MonitorApp.__init__ (lines 42-43, 74-75)
MonitorApp_init ==
    [minimized |-> FALSE, restore_size |-> None,
     after_id |-> None, exiting |-> FALSE]

\* component.hide() / component.show(): not in components.py as given;
\* taken to unpack / pack the component's frame
Hide(vis, c) == vis \ {c}

Show(vis, c) == vis \cup {c}

\* mutant: the size is recorded after the window has shrunk
_minimize_to_strip_late(st, tf) ==
    LET w == st.root.w
        time_h == Max(Max(tf.reqheight, tf.height), 1)
    IN  [app |-> [st.app EXCEPT !.restore_size = <<w, time_h>>,
                                !.minimized = TRUE],
         root |-> [st.root EXCEPT !.w = w, !.h = time_h],
         visible |-> Show(Hide(Hide(st.visible, "cpu"), "gpu"), "time")]

_minimize_to_strip(st, tf) ==
    LET w == st.root.w
        h == st.root.h
        time_h == Max(Max(tf.reqheight, tf.height), 1)
    IN  [app |-> [st.app EXCEPT !.restore_size = <<w, h>>, !.minimized = TRUE],
         root |-> [st.root EXCEPT !.w = w, !.h = time_h],
         visible |-> Show(Hide(Hide(st.visible, "cpu"), "gpu"), "time")]

_restore_from_strip(st) ==
    [app |-> [st.app EXCEPT !.minimized = FALSE],
     root |-> IF st.app.restore_size # None
              THEN [st.root EXCEPT !.w = st.app.restore_size[1],
                                   !.h = st.app.restore_size[2]]
              ELSE st.root,
     visible |-> Show(Show(Show(Hide(Hide(Hide(st.visible, "cpu"), "gpu"),
                                     "time"), "cpu"), "gpu"), "time")]

\* mutant: the toggle minimizes whatever the state
_toggle_minimized_always(st, tf) == _minimize_to_strip(st, tf)

_toggle_minimized(st, tf) ==
    IF st.app.minimized THEN _restore_from_strip(st)
    ELSE _minimize_to_strip(st, tf)

\* mutant: a snap change never restores the window
_on_snap_changed_ignoring(st, w) == st

\* mutant: a snap change to the top minimizes the window
_on_snap_changed_docking(st, w) ==
    LET is_top == w.snap_target \in TopTargets
    IN  IF ~is_top /\ st.app.minimized THEN _restore_from_strip(st)
        ELSE IF is_top THEN [st EXCEPT !.app.minimized = TRUE]
        ELSE st

_on_snap_changed(st, w) ==
    LET is_top == w.snap_target \in TopTargets
    IN  IF ~is_top /\ st.app.minimized THEN _restore_from_strip(st) ELSE st

_on_time_release(st, w, tf) ==
    IF w.snap_target \notin TopTargets THEN st
    ELSE IF was_click(w, st.root, DefaultThreshold) THEN _toggle_minimized(st, tf)
    ELSE st

_on_container_release(st, w) ==
    IF ~st.app.minimized THEN st
    ELSE IF was_click(w, st.root, DefaultThreshold) THEN _restore_from_strip(st)
    ELSE st

----------------------------------------------------------------------------
(* hwmon/utils.py, hwmon/components.py: the sampled graph components       *)

\* math.nan
NaN == <<0, 0>>

mean(values) == IF Len(values) = 0 THEN NaN ELSE FMean[values]

\* deque(values, maxlen): the last maxlen values
Deque(values, maxlen) ==
    SubSeq(values, Max(Len(values) - maxlen, 0) + 1, Len(values))

\* deque.append
DequeAppend(d, v, maxlen) == Deque(Append(d, v), maxlen)

\* LoadTempGraphComponent.__init__ down to SampledComponent.__init__;
\* style is [history_len, sample_window]
LoadTempGraphComponent_init(style) ==
    [history |-> Deque([i \in 1..style.history_len |-> <<0, 1>>],
                       style.history_len),
     history_len |-> style.history_len,
     samples |-> Deque(<< <<0, 1>> >>, style.sample_window),
     usage_samples |-> Deque(<< <<0, 1>> >>, style.sample_window),
     sample_window |-> style.sample_window,
     sample_count |-> 0]

\* LoadTempGraphComponent.add_sample
add_sample(c, temp, usage) ==
    [c EXCEPT !.samples = IF temp # None
                          THEN DequeAppend(c.samples, temp, c.sample_window)
                          ELSE c.samples,
              !.usage_samples = IF usage # None
                                THEN DequeAppend(c.usage_samples, usage,
                                                 c.sample_window)
                                ELSE c.usage_samples]

\* mutant: the refresh waits for one call more than sample_window
SampledComponent_update_late(c) ==
    IF c.sample_count + 1 > c.sample_window
    THEN [comp |-> [c EXCEPT !.sample_count = 0,
                             !.history = DequeAppend(c.history, mean(c.samples),
                                                     c.history_len)],
          returns |-> TRUE, refreshed |-> 1]
    ELSE [comp |-> [c EXCEPT !.sample_count = c.sample_count + 1],
          returns |-> FALSE, refreshed |-> 0]

\* SampledComponent.update: the component after the call, the value the
\* call returns, and how many times it ran _update (the redraw in _update
\* changes none of the fields modelled)
SampledComponent_update(c) ==
    IF c.sample_count + 1 >= c.sample_window
    THEN [comp |-> [c EXCEPT !.sample_count = 0,
                             !.history = DequeAppend(c.history, mean(c.samples),
                                                     c.history_len)],
          returns |-> TRUE, refreshed |-> 1]
    ELSE [comp |-> [c EXCEPT !.sample_count = c.sample_count + 1],
          returns |-> FALSE, refreshed |-> 0]

\* the component as update() leaves it
update(c) == SampledComponent_update(c).comp

----------------------------------------------------------------------------
(* hwmon/main.py: MonitorApp, the refresh loop and exit                    *)
(* The handlers work on ps = [app, sensors, hw, metrics, comps, timers,    *)
(* mainloop].                                                              *)

\* update_measures, as main() passes it
SampleWindow == 4

\* history_len of the graph style (60 in the program)
HistoryLen == 3

GraphStyle == [history_len |-> HistoryLen, sample_window |-> SampleWindow]

\* _update with the drivers and PDH answering h. TimeComponent.update() is
\* not in components.py as given; it is taken to return normally and to
\* touch none of the fields modelled here.
_update(ps, h) ==
    With(sample(ps.sensors, h), LAMBDA m :
        [ps EXCEPT
            !.sensors = [ps.sensors EXCEPT
                            !.gpu_usage_names = _gpu_usage(ps.sensors, h)[2]],
            !.hw = h,
            !.metrics = m,
            !.comps = [cpu |-> update(add_sample(ps.comps.cpu, m.cpu_temp,
                                                 m.cpu_usage)),
                       gpu |-> update(add_sample(ps.comps.gpu, m.gpu_temp,
                                                 m.gpu_usage))]])

\* mutant: the refresh timer is not armed again
_schedule_update_no_rearm(ps, h) == _update(ps, h)

_schedule_update(ps, h) ==
    With(_update(ps, h), LAMBDA u :
        LET a == after(u.timers, IF u.app.after_id = None THEN {}
                                 ELSE {u.app.after_id[1]}, "_schedule_update")
        IN  [u EXCEPT !.app.after_id = <<a[1]>>, !.timers = a[2]])

\* start(): the first _schedule_update, then mainloop()
start(ps, h) == [_schedule_update(ps, h) EXCEPT !.mainloop = "running"]

\* mutant: the refresh timer is left pending
_exit_no_cancel(ps) == [ps EXCEPT !.app.exiting = TRUE, !.mainloop = "quit"]

\* _exit; quit() makes mainloop() return once the callback is done
_exit(ps) ==
    [ps EXCEPT !.app.exiting = TRUE,
               !.timers = IF ps.app.after_id # None
                          THEN after_cancel(ps.timers, ps.app.after_id[1])
                          ELSE ps.timers,
               !.mainloop = "quit"]

----------------------------------------------------------------------------
(* Idle values of each part, used by the specifications of the others      *)

SnapIdle == snapIn = None /\ snapOut = Pending

PickIdle == pickIn = None /\ pickOut = Pending

DragIdle == dragIn = None /\ dragOut = Pending /\ relOut = Pending

PdhIdle == pdhQuery = None /\ pdhIn = None /\ pdhOut = Pending

BuildIdle == build = None

SensorsIdle == sensors = None /\ hw = None /\ metrics = None

NetIdle == net = None /\ netHw = None /\ netOut = Pending

CompIdle ==
    comp = None /\ compOut = Pending /\ compCalls = 0 /\ compRecent = <<>>

WinIdle ==
    /\ root = None /\ timeFrame = None /\ visible = {} /\ win = None
    /\ app = None /\ disp = None /\ clickParity = 0
    /\ comps = None /\ timers = {} /\ mainloop = "not_started"
    /\ exitChosen = FALSE

----------------------------------------------------------------------------
(* SpecSnap: one call of _apply_snap on drawn arguments                    *)

\* how far beyond the snap distance the drawn positions reach
SnapMargin == 1

SnapOffsets == (0 - SNAP_PX - SnapMargin)..(SNAP_PX + SnapMargin)

SnapWorkRects == {<<0, 0, 200, 140>>, <<-120, 30, 80, 130>>}

\* a widget-sized window, and one nearly as large as the work area (both
\* edges of an axis can then be within the snap distance)
SnapWidths(r) == {80, (r[3] - r[1]) - 10}

SnapHeights(r) == {60, (r[4] - r[2]) - 21, (r[4] - r[2]) - 20}

SnapInputs ==
    UNION { UNION { UNION {
        { [x |-> x, y |-> y, w |-> w, h |-> h, work_rect |-> r] :
            x \in {r[1] + d : d \in SnapOffsets}
                  \cup {r[3] - w + d : d \in SnapOffsets},
            y \in {r[2] + d : d \in {-17, -16, 0, 7, 10, 16, 17, 40}}
                  \cup {r[4] - h + d : d \in {-17, -16, 0, 16, 17}} }
        : h \in SnapHeights(r) } : w \in SnapWidths(r) } : r \in SnapWorkRects }

InitSnap ==
    /\ snapIn \in SnapInputs
    /\ snapOut = Pending
    /\ PickIdle /\ DragIdle /\ SensorsIdle /\ NetIdle /\ WinIdle /\ CompIdle
    /\ PdhIdle /\ BuildIdle

ApplySnapCall ==
    /\ snapIn # None
    /\ snapOut = Pending
    /\ snapOut' = Returned(_apply_snap(snapIn.x, snapIn.y, snapIn.w, snapIn.h,
                                       snapIn.work_rect))
    /\ UNCHANGED <<snapIn, pickIn, pickOut, dragIn, dragOut, relOut>>
    /\ UNCHANGED <<sensorVars, netVars, pdhVars, buildVars, winVars, pollVars, compVars>>

NextSnap == ApplySnapCall

SpecSnap == InitSnap /\ [][NextSnap]_vars

----------------------------------------------------------------------------
(* SpecPick: one call of _pick_monitor on drawn arguments                  *)

MaxMonitors == 2

\* two side-by-side monitors sharing the edge x = 10, one overlapping both,
\* one below with a gap
PickRects ==
    {<<0, 0, 10, 10>>, <<10, 0, 20, 10>>, <<5, 5, 15, 15>>, <<0, 14, 10, 20>>}

PickCoords == {-3, 0, 5, 10, 12, 15, 17, 23}

PickMonitorLists ==
    UNION { { s \in [1..n -> {Monitor(r, r) : r \in PickRects}] :
                \A i, j \in 1..n : i # j => s[i] # s[j] }
            : n \in 0..MaxMonitors }

InitPick ==
    /\ pickIn \in [monitors : PickMonitorLists, px : PickCoords, py : PickCoords]
    /\ pickOut = Pending
    /\ SnapIdle /\ DragIdle /\ SensorsIdle /\ NetIdle /\ WinIdle /\ CompIdle
    /\ PdhIdle /\ BuildIdle

PickMonitorCall ==
    /\ pickIn # None
    /\ pickOut = Pending
    /\ pickOut' = Returned(_pick_monitor(pickIn.monitors, pickIn.px, pickIn.py))
    /\ UNCHANGED <<pickIn, snapIn, snapOut, dragIn, dragOut, relOut>>
    /\ UNCHANGED <<sensorVars, netVars, pdhVars, buildVars, winVars, pollVars, compVars>>

NextPick == PickMonitorCall

SpecPick == InitPick /\ [][NextPick]_vars

----------------------------------------------------------------------------
(* SpecDrag: one motion event handled by _on_drag on drawn fields, then a  *)
(* release at the same pointer position handled by _on_release             *)

\* the press offsets and the monitor caches the motion can find; the cache
\* is empty only when no press has run _start_drag, and the fields are
\* then those __init__ set
DragOffsetXs == {0, 10}

DragOffsetYs == {0, 5}

DragMonitorCaches ==
    {<<>>,
     _refresh_monitor_cache(<<>>, <<200, 150>>),
     <<Monitor(<<0, 0, 200, 150>>, <<0, 0, 200, 140>>),
       Monitor(<<200, 0, 400, 150>>, <<200, 0, 400, 150>>)>>}

DragPointerXs == {5, 20, 100, 125, 205, 290}

DragPointerYs == {3, 20, 70, 95}

DragReleased == {"none", "top", "left"}

\* the widget's size, and one nearly as large as the first work area
DragSizes == {<<80, 60>>, <<190, 120>>}

DragInputs ==
    { [w |-> [OverlayWindow_init EXCEPT !.drag_off_x = q[1], !.drag_off_y = q[2],
                                        !.monitors = q[3],
                                        !.last_released_snap_target = q[4]],
       r |-> [x |-> 60, y |-> 34, w |-> sz[1], h |-> sz[2]],
       ex |-> ex, ey |-> ey] :
        sz \in DragSizes,
        q \in {f \in DragOffsetXs \X DragOffsetYs \X DragMonitorCaches
                       \X DragReleased :
                  f[3] = <<>> => (f[1] = 0 /\ f[2] = 0 /\ f[4] = "none")},
        ex \in DragPointerXs, ey \in DragPointerYs }

InitDrag ==
    /\ dragIn \in DragInputs
    /\ dragOut = Pending
    /\ relOut = Pending
    /\ SnapIdle /\ PickIdle /\ SensorsIdle /\ NetIdle /\ WinIdle /\ CompIdle
    /\ PdhIdle /\ BuildIdle

OnDragCall ==
    /\ dragIn # None
    /\ dragOut = Pending
    /\ dragOut' = Returned(_on_drag(dragIn.w, dragIn.r, dragIn.ex, dragIn.ey))
    /\ UNCHANGED <<dragIn, relOut, snapIn, snapOut, pickIn, pickOut>>
    /\ UNCHANGED <<sensorVars, netVars, pdhVars, buildVars, winVars, pollVars, compVars>>

OnReleaseCall ==
    /\ dragOut # Pending
    /\ relOut = Pending
    /\ relOut' = Returned(_on_release(dragOut[2].win, dragOut[2].root,
                                      dragIn.ex, dragIn.ey))
    /\ UNCHANGED <<dragIn, dragOut, snapIn, snapOut, pickIn, pickOut>>
    /\ UNCHANGED <<sensorVars, netVars, pdhVars, buildVars, winVars, pollVars, compVars>>

NextDrag == OnDragCall \/ OnReleaseCall

SpecDrag == InitDrag /\ [][NextDrag]_vars

----------------------------------------------------------------------------
(* SpecSensors: a SensorBackend is built, then sample() is called with     *)
(* drawn driver and PDH answers                                            *)

MaxGpus == 2

MaxAdapters == 1

MaxPdhItems == 2

SeqsUpTo(S, n) == UNION {[1..k -> S] : k \in 0..n}

NvEnvs ==
    {[loaded |-> FALSE, init_status |-> 0, enum_status |-> 0, gpu_count |-> 0],
     [loaded |-> TRUE, init_status |-> 1, enum_status |-> 0, gpu_count |-> 0]}
    \cup {[loaded |-> TRUE, init_status |-> 0, enum_status |-> 0, gpu_count |-> n]
              : n \in 0..MaxGpus}

AdlEnvs ==
    {[loaded |-> FALSE, create_status |-> ADL_OK, active |-> 0],
     [loaded |-> TRUE, create_status |-> 1, active |-> 0]}
    \cup {[loaded |-> TRUE, create_status |-> ADL_OK, active |-> n]
              : n \in 0..MaxAdapters}

FailedKeySets == {{}, {"gpu_temp"}, SensorKeys}

BuildEnvs == [failed_keys : FailedKeySets, nv : NvEnvs, adl : AdlEnvs]

\* one GPU's thermal settings: 65 degrees, a failed call
NvThermals ==
    {[status |-> 0, count |-> 1, currentTemp |-> 65],
     [status |-> 1, count |-> 0, currentTemp |-> 0]}

\* one adapter's temperature: 45.5 degrees, 150 degrees (rejected as
\* implausible), a failed call
AdlTemps ==
    {[status |-> ADL_OK, iTemperature |-> 45500],
     [status |-> ADL_OK, iTemperature |-> 150000],
     [status |-> 1, iTemperature |-> 45500]}

\* one GPU adapter's PDH temperature: 300.15 K, 273.15 K, a bad item
PdhGpuTempItems ==
    {PdhItem("gpu0", ERROR_SUCCESS, <<6003, 20>>),
     PdhItem("gpu1", ERROR_SUCCESS, <<5463, 20>>),
     PdhItem("gpu2", 1, <<0, 1>>)}

PdhGpuTempAnswers ==
    {[ok |-> FALSE, items |-> <<>>]}
    \cup {[ok |-> TRUE, items |-> s] : s \in SeqsUpTo(PdhGpuTempItems, MaxPdhItems)}

\* the other three counters' answers, drawn together: everything healthy,
\* everything failing, and a mixed case (a zero zone, an over-range usage,
\* an engine that is not counted)
PdhOtherAnswers ==
    {[cpu_temp |-> [ok |-> TRUE, items |->
          <<PdhItem("TZ.THM0", ERROR_SUCCESS, <<310, 1>>),
            PdhItem("TZ.CPU0", ERROR_SUCCESS, <<320, 1>>)>>],
      cpu_usage |-> [ok |-> TRUE, CStatus |-> ERROR_SUCCESS,
                     doubleValue |-> <<25, 2>>],
      gpu_usage |-> [ok |-> TRUE, items |->
          <<PdhItem("pid_1_engtype_3d", ERROR_SUCCESS, <<30, 1>>),
            PdhItem("pid_2_engtype_copy", ERROR_SUCCESS, <<90, 1>>)>>]],
     [cpu_temp |-> [ok |-> FALSE, items |-> <<>>],
      cpu_usage |-> [ok |-> FALSE, CStatus |-> ERROR_SUCCESS,
                     doubleValue |-> <<0, 1>>],
      gpu_usage |-> [ok |-> FALSE, items |-> <<>>]],
     [cpu_temp |-> [ok |-> TRUE, items |->
          <<PdhItem("TZ.THM0", ERROR_SUCCESS, <<0, 1>>),
            PdhItem("tz.thm1", ERROR_SUCCESS, <<45, 1>>),
            PdhItem("tz.thm2", 1, <<0, 1>>)>>],
      cpu_usage |-> [ok |-> TRUE, CStatus |-> ERROR_SUCCESS,
                     doubleValue |-> <<201, 2>>],
      gpu_usage |-> [ok |-> TRUE, items |->
          <<PdhItem("pid_1_engtype_videodecode", ERROR_SUCCESS, <<50, 1>>),
            PdhItem("pid_2_engtype_copy", ERROR_SUCCESS, <<5, 2>>)>>]],
     \* a zone at exactly 200 beside a Kelvin zone
     [cpu_temp |-> [ok |-> TRUE, items |->
          <<PdhItem("TZ.THM0", ERROR_SUCCESS, <<200, 1>>),
            PdhItem("tz.thm1", ERROR_SUCCESS, <<300, 1>>)>>],
      cpu_usage |-> [ok |-> TRUE, CStatus |-> ERROR_SUCCESS,
                     doubleValue |-> <<-1, 1>>],
      gpu_usage |-> [ok |-> TRUE, items |->
          <<PdhItem("pid_1_engtype_3d", ERROR_SUCCESS, <<30, 1>>)>>]],
     \* a failed zone, and a CPU zone reading zero before a second CPU zone
     [cpu_temp |-> [ok |-> TRUE, items |->
          <<PdhItem("tz.thm1", 1, <<45, 1>>),
            PdhItem("TZ.CPU0", ERROR_SUCCESS, <<0, 1>>),
            PdhItem("tz.cpu1", ERROR_SUCCESS, <<330, 1>>)>>],
      cpu_usage |-> [ok |-> TRUE, CStatus |-> 1, doubleValue |-> <<50, 1>>],
      gpu_usage |-> [ok |-> TRUE, items |->
          <<PdhItem("pid_1_engtype_3d", ERROR_SUCCESS, <<30, 1>>)>>]]}

\* what the drivers and PDH can answer to backend b during one sample()
HwAnswers(b) ==
    { [nv |-> nv, adl |-> adl,
       pdh |-> [gpu_temp |-> g, cpu_temp |-> o.cpu_temp,
                cpu_usage |-> o.cpu_usage, gpu_usage |-> o.gpu_usage]] :
        nv \in (IF b.nvapi = None THEN {<<>>}
                ELSE [1..b.nvapi[1].gpu_count -> NvThermals]),
        adl \in (IF b.amdadl = None THEN {<<>>}
                 ELSE [1..b.amdadl[1].adapter_count -> AdlTemps]),
        g \in PdhGpuTempAnswers,
        o \in PdhOtherAnswers }

InitSensors ==
    /\ sensors \in {SensorBackend_init(e) : e \in BuildEnvs}
    /\ hw \in HwAnswers(sensors)
    /\ metrics = None
    /\ SnapIdle /\ PickIdle /\ DragIdle /\ NetIdle /\ WinIdle /\ CompIdle
    /\ PdhIdle /\ BuildIdle

\* SensorBackend.sample() with the answers h
Sample(h) ==
    /\ hw' = h
    /\ metrics' = sample(sensors, h)
    /\ sensors' = [sensors EXCEPT !.gpu_usage_names = _gpu_usage(sensors, h)[2]]

SensorSample ==
    /\ metrics = None
    /\ Sample(hw)
    /\ UNCHANGED <<winFnVars, netVars, pdhVars, buildVars, winVars, pollVars, compVars>>

\* the hardware moves on after a sample: the CPU and GPU-usage counters
\* answer anew
HwChange ==
    /\ metrics # None
    /\ \E o \in PdhOtherAnswers :
          hw' = [hw EXCEPT !.pdh.cpu_temp = o.cpu_temp,
                           !.pdh.cpu_usage = o.cpu_usage,
                           !.pdh.gpu_usage = o.gpu_usage]
    /\ metrics' = None
    /\ UNCHANGED sensors
    /\ UNCHANGED <<winFnVars, netVars, pdhVars, buildVars, winVars, pollVars, compVars>>

NextSensors == SensorSample \/ HwChange

SpecSensors == InitSensors /\ [][NextSensors]_vars

----------------------------------------------------------------------------
(* SpecPdh: a PDHQuery on its own: counters are added, with PDH accepting  *)
(* or refusing each, and values are read, with PDH answering each read     *)

PdhKeys == {"cpu_temp", "cpu_usage"}

\* the statuses PDH returns: success and one failure
PdhStatuses == {ERROR_SUCCESS, 1}

PdhScalarAnswers ==
    {[ok |-> ok, CStatus |-> cs, doubleValue |-> <<25, 2>>] :
        ok \in BOOLEAN, cs \in PdhStatuses}

PdhArrayItems ==
    {PdhItem("TZ.CPU0", ERROR_SUCCESS, <<320, 1>>),
     PdhItem("tz.cpu0", 1, <<0, 1>>),
     PdhItem("tz.thm1", ERROR_SUCCESS, <<45, 1>>)}

PdhArrayAnswers ==
    {[ok |-> FALSE, items |-> <<>>]}
    \cup {[ok |-> TRUE, items |-> s] : s \in SeqsUpTo(PdhArrayItems, MaxPdhItems)}

InitPdh ==
    /\ pdhQuery = PDHQuery_init
    /\ pdhIn = None
    /\ pdhOut = Pending
    /\ SnapIdle /\ PickIdle /\ DragIdle /\ SensorsIdle /\ NetIdle /\ WinIdle
    /\ CompIdle /\ BuildIdle

PdhCalled(op, key, answer) ==
    pdhIn' = [op |-> op, key |-> key, answer |-> answer,
              before |-> pdhQuery.counters]

PdhOthers ==
    UNCHANGED <<winFnVars, sensorVars, netVars, buildVars, winVars, pollVars,
                compVars>>

AddCounterCall ==
    /\ \E key \in PdhKeys, status \in PdhStatuses :
          \E r \in {add_counter(pdhQuery, key, status)} :
              /\ pdhQuery' = r.query
              /\ pdhOut' = Returned(r.returns)
              /\ PdhCalled("add_counter", key, status)
    /\ PdhOthers

GetValueCall ==
    /\ \E key \in PdhKeys, a \in PdhScalarAnswers :
          /\ pdhOut' = Returned(get_value(pdhQuery.counters,
                                          [k \in {key} |-> a], key))
          /\ PdhCalled("get_value", key, a)
    /\ UNCHANGED pdhQuery
    /\ PdhOthers

GetArrayCall ==
    /\ \E key \in PdhKeys, a \in PdhArrayAnswers :
          /\ pdhOut' = Returned(get_array(pdhQuery.counters,
                                          [k \in {key} |-> a], key))
          /\ PdhCalled("get_array", key, a)
    /\ UNCHANGED pdhQuery
    /\ PdhOthers

GetDictCall ==
    /\ \E key \in PdhKeys, a \in PdhArrayAnswers :
          /\ pdhOut' = Returned(get_dict(pdhQuery.counters,
                                         [k \in {key} |-> a], key))
          /\ PdhCalled("get_dict", key, a)
    /\ UNCHANGED pdhQuery
    /\ PdhOthers

NextPdh == AddCounterCall \/ GetValueCall \/ GetArrayCall \/ GetDictCall

SpecPdh == InitPdh /\ [][NextPdh]_vars

----------------------------------------------------------------------------
(* SpecBuild: a program imports hwmon.sensors and constructs a             *)
(* SensorBackend on a machine whose vendor libraries behave as drawn       *)

InitBuild ==
    /\ build \in [env : BuildEnvs, out : {Pending}]
    /\ SnapIdle /\ PickIdle /\ DragIdle /\ SensorsIdle /\ NetIdle /\ WinIdle
    /\ CompIdle /\ PdhIdle

\* from hwmon.sensors import SensorBackend; SensorBackend()
BuildBackend ==
    /\ build.out = Pending
    /\ build' = [build EXCEPT !.out =
                     IF import_sensors = Raised("ImportError")
                     THEN Raised("ImportError")
                     ELSE Returned(SensorBackend_init(build.env))]
    /\ UNCHANGED <<winFnVars, sensorVars, netVars, pdhVars, winVars, pollVars,
                   compVars>>

NextBuild == BuildBackend

SpecBuild == InitBuild /\ [][NextBuild]_vars

----------------------------------------------------------------------------
(* SpecNet: a NetworkBackend is built, then sample() is called once on     *)
(* drawn PDH answers                                                       *)

MaxInterfaces == 2

\* one interface's counter item: two adapters, the loopback, the aggregate,
\* and an adapter whose item is bad
NetItems ==
    {PdhItem("Intel Ethernet", ERROR_SUCCESS, <<1000, 1>>),
     PdhItem("Wi-Fi 6 AX201", ERROR_SUCCESS, <<500, 1>>),
     PdhItem("Loopback Pseudo-Interface 1", ERROR_SUCCESS, <<7, 1>>),
     PdhItem("_Total", ERROR_SUCCESS, <<1507, 1>>),
     PdhItem("Intel Ethernet", 1, <<0, 1>>)}

NetAnswers ==
    {[ok |-> FALSE, items |-> <<>>]}
    \cup {[ok |-> TRUE, items |-> s] : s \in SeqsUpTo(NetItems, MaxInterfaces)}

InitNet ==
    /\ net \in {NetworkBackend_init(f) : f \in {{}, {"bytes_sent"}}}
    /\ netHw \in [bytes_recv : NetAnswers, bytes_sent : NetAnswers]
    /\ netOut = Pending
    /\ SnapIdle /\ PickIdle /\ DragIdle /\ SensorsIdle /\ WinIdle /\ CompIdle
    /\ PdhIdle /\ BuildIdle

NetSample ==
    /\ netOut = Pending
    /\ netOut' = NetworkBackend_sample(net, netHw)
    /\ UNCHANGED <<net, netHw, winFnVars, sensorVars, winVars, pollVars, compVars,
                   pdhVars, buildVars>>

NextNet == NetSample

SpecNet == InitNet /\ [][NextNet]_vars

----------------------------------------------------------------------------
(* SpecWin: the overlay window under mouse presses, drags and releases.    *)
(* Tk runs one handler at a time. A press on a widget runs _start_drag; a  *)
(* motion with the button held runs _on_drag; a release runs _on_release   *)
(* (and, inside event_generate, _on_snap_changed), then the handler added  *)
(* to the pressed widget with add="+": _on_time_release on the time strip, *)
(* _on_container_release on the container. geometry() takes effect before *)
(* the next handler runs.                                                  *)

\* the window's natural size
NaturalW == 80

NaturalH == 60

\* the screen, and the monitor layout EnumDisplayMonitors can deliver (a
\* taskbar takes 10 pixels off the first monitor's work area)
Screen == <<200, 150>>

MonitorLayouts ==
    {<<>>,
     <<Monitor(<<0, 0, 200, 150>>, <<0, 0, 200, 140>>),
       Monitor(<<200, 0, 400, 150>>, <<200, 0, 400, 150>>)>>}

\* where the pointer can be when an event arrives
PointerXs == {30, 90}

PointerYs == {10, 40, 42, 43}

\* where the window manager first places the window
InitialPositions == {<<0, 0>>, <<60, 34>>}

\* what Tk reports for the time strip's frame
TimeFrames == {[reqheight |-> 18, height |-> 18], [reqheight |-> 0, height |-> 0]}

\* how far a drag may take the window from the screen's origin
MaxCoord == 120

Widgets == {"time", "container", "graph"}

\* the widgets a press can land on: the graphs only while they are shown
Pressable ==
    {"time", "container"} \cup (IF "cpu" \in visible THEN {"graph"} ELSE {})

State == [app |-> app, root |-> root, visible |-> visible]

SetState(st) == app' = st.app /\ root' = st.root /\ visible' = st.visible

\* the machine the application runs on: an NVIDIA GPU, no AMD library, all
\* four counters registered
PollEnv ==
    [failed_keys |-> {},
     nv |-> [loaded |-> TRUE, init_status |-> 0, enum_status |-> 0,
             gpu_count |-> 1],
     adl |-> [loaded |-> FALSE, create_status |-> ADL_OK, active |-> 0]]

\* what the drivers and PDH answer during one poll: every source healthy,
\* or every source failing
PollAnswers ==
    { [nv |-> <<t>>, adl |-> <<>>,
       pdh |-> [gpu_temp |-> [ok |-> FALSE, items |-> <<>>],
                cpu_temp |-> o.cpu_temp, cpu_usage |-> o.cpu_usage,
                gpu_usage |-> o.gpu_usage]] :
        <<t, o>> \in {q \in NvThermals \X PdhOtherAnswers :
                         /\ (q[1].status = 0) <=> q[2].cpu_usage.ok
                         /\ q[2].cpu_usage.doubleValue \in {<<25, 2>>, <<0, 1>>}} }

\* MonitorApp.__init__: the refresh-loop part of the state it leaves
MonitorApp_built ==
    [app |-> MonitorApp_init,
     sensors |-> SensorBackend_init(PollEnv),
     hw |-> None,
     metrics |-> None,
     comps |-> [cpu |-> LoadTempGraphComponent_init(GraphStyle),
                gpu |-> LoadTempGraphComponent_init(GraphStyle)],
     timers |-> {},
     mainloop |-> "not_started"]

PollState ==
    [app |-> app, sensors |-> sensors, hw |-> hw, metrics |-> metrics,
     comps |-> comps, timers |-> timers, mainloop |-> mainloop]

SetPollState(ps) ==
    /\ app' = ps.app /\ sensors' = ps.sensors /\ hw' = ps.hw
    /\ metrics' = ps.metrics /\ comps' = ps.comps /\ timers' = ps.timers
    /\ mainloop' = ps.mainloop

\* the state in which ps holds the refresh loop's part
PollStateIs(ps) ==
    /\ app = ps.app /\ sensors = ps.sensors /\ hw = ps.hw
    /\ metrics = ps.metrics /\ comps = ps.comps /\ timers = ps.timers
    /\ mainloop = ps.mainloop

\* MonitorApp.__init__: the window part of the state it leaves, with the
\* window placed at p and the time strip's frame reported as tf
WindowBuilt(p, tf) ==
    /\ root = [x |-> p[1], y |-> p[2], w |-> NaturalW, h |-> NaturalH]
    /\ timeFrame = tf
    /\ visible = Components
    /\ win = set_exit_callback(OverlayWindow_init, "_exit")
    /\ disp = [phase |-> "idle", widget |-> "none", generated |-> FALSE]
    /\ clickParity = 0
    /\ exitChosen = FALSE

\* the application has been built and start() has entered the main loop
\* after its first poll; the refresh timer stays pending throughout
InitWin ==
    /\ \E p \in InitialPositions, tf \in TimeFrames : WindowBuilt(p, tf)
    /\ \E h \in PollAnswers :
          /\ h.pdh.cpu_usage.ok
          /\ PollStateIs(start(MonitorApp_built, h))
    /\ SnapIdle /\ PickIdle /\ DragIdle /\ NetIdle /\ CompIdle
    /\ PdhIdle /\ BuildIdle

\* <Button-1> on a widget under the pointer
Press ==
    /\ disp.phase = "idle"
    /\ \E wd \in Pressable, ex \in PointerXs, ey \in PointerYs,
          enumerated \in MonitorLayouts :
          /\ ex \in root.x..(root.x + root.w)
          /\ ey \in root.y..(root.y + root.h)
          /\ win' = _start_drag(win, root, ex, ey, enumerated, Screen)
          /\ disp' = [phase |-> "down", widget |-> wd, generated |-> FALSE]
    /\ UNCHANGED <<root, timeFrame, visible, app, clickParity>>
    /\ UNCHANGED <<winFnVars, sensorVars, netVars, pdhVars, buildVars, pollVars, compVars>>

\* <B1-Motion>
Drag ==
    /\ disp.phase = "down"
    /\ \E ex \in PointerXs, ey \in PointerYs :
          LET r == _on_drag(win, root, ex, ey)
          IN  /\ Abs(r.root.x) <= MaxCoord /\ Abs(r.root.y) <= MaxCoord
              /\ win' = r.win
              /\ root' = r.root
    /\ UNCHANGED <<timeFrame, visible, app, disp, clickParity>>
    /\ UNCHANGED <<winFnVars, sensorVars, netVars, pdhVars, buildVars, pollVars, compVars>>

\* <ButtonRelease-1>: _on_release, with _on_snap_changed run by
\* event_generate when the target changed
Release ==
    /\ disp.phase = "down"
    /\ \E ex \in PointerXs, ey \in PointerYs :
          LET r == _on_release(win, root, ex, ey)
              st == IF r.generated THEN _on_snap_changed(State, r.win) ELSE State
          IN  /\ win' = r.win
              /\ SetState(st)
              /\ clickParity' = IF app.minimized /\ ~st.app.minimized
                                THEN 0 ELSE clickParity
              /\ disp' = [phase |->
                              CASE disp.widget = "time" -> "time_release"
                                [] disp.widget = "container" -> "container_release"
                                [] OTHER -> "idle",
                          widget |-> disp.widget,
                          generated |-> r.generated]
    /\ UNCHANGED timeFrame
    /\ UNCHANGED <<winFnVars, sensorVars, netVars, pdhVars, buildVars, pollVars, compVars>>

\* the time strip's own <ButtonRelease-1> handler
TimeRelease ==
    /\ disp.phase = "time_release"
    /\ SetState(_on_time_release(State, win, timeFrame))
    /\ clickParity' =
           IF win.snap_target \in TopTargets
              /\ (root.x - win.drag_start_x) \in -2..2
              /\ (root.y - win.drag_start_y) \in -2..2
           THEN 1 - clickParity ELSE clickParity
    /\ disp' = [disp EXCEPT !.phase = "idle", !.generated = FALSE]
    /\ UNCHANGED <<timeFrame, win>>
    /\ UNCHANGED <<winFnVars, sensorVars, netVars, pdhVars, buildVars, pollVars, compVars>>

\* the container's own <ButtonRelease-1> handler
ContainerRelease ==
    /\ disp.phase = "container_release"
    /\ LET st == _on_container_release(State, win)
       IN  /\ SetState(st)
           /\ clickParity' = IF app.minimized /\ ~st.app.minimized
                             THEN 0 ELSE clickParity
    /\ disp' = [disp EXCEPT !.phase = "idle", !.generated = FALSE]
    /\ UNCHANGED <<timeFrame, win>>
    /\ UNCHANGED <<winFnVars, sensorVars, netVars, pdhVars, buildVars, pollVars, compVars>>

NextWin == Press \/ Drag \/ Release \/ TimeRelease \/ ContainerRelease

SpecWin == InitWin /\ [][NextWin]_vars

----------------------------------------------------------------------------
(* SpecPoll: the refresh loop and the exit from the context menu. Tk runs  *)
(* one callback at a time, and only inside mainloop(): a pending timer     *)
(* fires, or the user picks Exit in the context menu. After quit() the     *)
(* main loop returns and no callback runs any more.                        *)

\* how many Exit choices can be waiting for their timer at once
MaxExitClicks == 2

RefreshTimers == {t \in timers : t.cb = "_schedule_update"}

ExitTimers == {t \in timers : t.cb = "_exit"}

InitPoll ==
    /\ WindowBuilt(<<0, 0>>, [reqheight |-> 18, height |-> 18])
    /\ PollStateIs(MonitorApp_built)
    /\ SnapIdle /\ PickIdle /\ DragIdle /\ NetIdle /\ CompIdle
    /\ PdhIdle /\ BuildIdle

pollFrame == <<root, timeFrame, visible, win, disp, clickParity>>

\* MonitorApp.start()
Start ==
    /\ mainloop = "not_started"
    /\ \E h \in PollAnswers :
          \E ps \in {start(PollState, h)} : SetPollState(ps)
    /\ UNCHANGED <<exitChosen, pollFrame, winFnVars, netVars, pdhVars, buildVars, compVars>>

\* the refresh timer fires: Tk drops it and calls _schedule_update
RefreshTimer ==
    /\ mainloop = "running"
    /\ \E t \in RefreshTimers, h \in PollAnswers :
          \E ps \in {_schedule_update(
                         [PollState EXCEPT !.timers = @ \ {t}], h)} :
              SetPollState(ps)
    /\ UNCHANGED <<exitChosen, pollFrame, winFnVars, netVars, pdhVars, buildVars, compVars>>

\* the user picks Exit in the context menu
ExitMenu ==
    /\ mainloop = "running"
    /\ Cardinality(ExitTimers) < MaxExitClicks
    /\ timers' = _on_exit_menu(win, timers,
                     IF app.after_id = None THEN {} ELSE {app.after_id[1]})
    /\ exitChosen' = TRUE
    /\ UNCHANGED <<app, comps, mainloop, sensorVars, pollFrame, winFnVars, netVars, pdhVars, buildVars,
                   compVars>>

\* an exit timer fires: Tk drops it and calls _exit
ExitTimer ==
    /\ mainloop = "running"
    /\ \E t \in ExitTimers :
          \E ps \in {_exit([PollState EXCEPT !.timers = @ \ {t}])} :
              SetPollState(ps)
    /\ UNCHANGED <<exitChosen, pollFrame, winFnVars, netVars, pdhVars, buildVars, compVars>>

NextPoll == Start \/ RefreshTimer \/ ExitMenu \/ ExitTimer

SpecPoll == InitPoll /\ [][NextPoll]_vars

\* Tk's main loop fires every timer that stays pending; start() runs
FairPoll ==
    /\ SpecPoll
    /\ WF_vars(Start) /\ WF_vars(RefreshTimer) /\ WF_vars(ExitTimer)

----------------------------------------------------------------------------
(* SpecComp: one graph component on its own, under add_sample() and        *)
(* update() calls in any order                                             *)

\* the largest sample_window drawn
MaxWindow == 2

\* the history_len of the component
CompHistoryLen == 1

\* the temperatures a sample can carry (the usage comes with it)
CompTemps == {None, <<40, 1>>, <<50, 1>>, <<65, 1>>}

InitComp ==
    /\ \E sw \in 1..MaxWindow :
          comp = LoadTempGraphComponent_init(
                     [history_len |-> CompHistoryLen, sample_window |-> sw])
    /\ compOut = Pending
    /\ compCalls = 0
    /\ compRecent = <<>>
    /\ SnapIdle /\ PickIdle /\ DragIdle /\ SensorsIdle /\ NetIdle /\ WinIdle
    /\ PdhIdle /\ BuildIdle

\* add_sample(temp, usage)
AddSample ==
    /\ \E t \in CompTemps :
          /\ comp' = add_sample(comp, t, IF t = None THEN None ELSE <<10, 1>>)
          /\ compRecent' = IF t = None THEN compRecent
                           ELSE Deque(Append(compRecent, t), comp.sample_window)
    /\ compOut' = Pending
    /\ UNCHANGED compCalls
    /\ UNCHANGED <<winFnVars, sensorVars, netVars, pdhVars, buildVars, winVars, pollVars>>

\* update(); compOut keeps what the call returned and the component as it was
UpdateCall ==
    /\ \E r \in {SampledComponent_update(comp)} :
          /\ comp' = r.comp
          /\ compOut' = Returned([returns |-> r.returns,
                                  refreshed |-> r.refreshed,
                                  before |-> comp])
    /\ compCalls' = (compCalls + 1) % comp.sample_window
    /\ UNCHANGED compRecent
    /\ UNCHANGED <<winFnVars, sensorVars, netVars, pdhVars, buildVars, winVars, pollVars>>

NextComp == AddSample \/ UpdateCall

SpecComp == InitComp /\ [][NextComp]_vars

----------------------------------------------------------------------------
(* Properties                                                              *)

\* the horizontal edge a target names
HorizEdge(t) ==
    CASE t \in {"left", "topleft", "bottomleft"} -> "left"
      [] t \in {"right", "topright", "bottomright"} -> "right"
      [] OTHER -> "none"

\* the vertical edge a target names
VertEdge(t) ==
    CASE t \in {"top", "topleft", "topright"} -> "top"
      [] t \in {"bottom", "bottomleft", "bottomright"} -> "bottom"
      [] OTHER -> "none"

\* C3: _apply_snap magnetizes to the work-area edges. On each axis, when a
\* window edge is within 16 pixels (inclusive) of the matching work-area
\* edge the returned coordinate aligns an edge exactly (x = left or
\* x = right - w, y = top or y = bottom - h) and the target names that edge;
\* when neither edge of the axis is within 16 pixels (17 does not snap) the
\* target names no edge of that axis. The target is one edge, a corner, or
\* "none" accordingly.
C3_SnapMagnetizes ==
    (snapOut # Pending) =>
        LET out == snapOut[2]
            l == snapIn.work_rect[1]
            t == snapIn.work_rect[2]
            r == snapIn.work_rect[3]
            b == snapIn.work_rect[4]
            nearL == (snapIn.x - l) \in (-16)..16
            nearR == ((snapIn.x + snapIn.w) - r) \in (-16)..16
            nearT == (snapIn.y - t) \in (-16)..16
            nearB == ((snapIn.y + snapIn.h) - b) \in (-16)..16
            hx == HorizEdge(out[3])
            vy == VertEdge(out[3])
        IN  /\ out[3] \in SnapTarget
            /\ (nearL \/ nearR) <=> (hx # "none")
            /\ hx = "left" => nearL /\ out[1] = l
            /\ hx = "right" => nearR /\ out[1] = r - snapIn.w
            /\ hx = "none" => out[1] = snapIn.x
            /\ (nearT \/ nearB) <=> (vy # "none")
            /\ vy = "top" => nearT /\ out[2] = t
            /\ vy = "bottom" => nearB /\ out[2] = b - snapIn.h
            /\ vy = "none" => out[2] = snapIn.y
            /\ (out[3] \in {"topleft", "topright", "bottomleft",
                                "bottomright"})
                   <=> (hx # "none" /\ vy # "none")
            /\ (out[3] = "none") <=> (hx = "none" /\ vy = "none")

\* C3 witness: a call that snapped to a corner from exactly 16 pixels away
\* on both axes
C3_Witness ==
    /\ snapOut # Pending
    /\ snapOut[2][3] = "bottomright"
    /\ (snapIn.x + snapIn.w) - snapIn.work_rect[3] = 16
    /\ (snapIn.y + snapIn.h) - snapIn.work_rect[4] = -16
    /\ snapOut[2][1] = snapIn.work_rect[3] - snapIn.w
    /\ snapOut[2][2] = snapIn.work_rect[4] - snapIn.h

\* the distance from coordinate p to the interval lo..hi
Gap(p, lo, hi) == IF p < lo THEN lo - p ELSE IF p > hi THEN p - hi ELSE 0

\* the squared Euclidean distance from (px, py) to monitor m's rectangle
RectDist2(m, px, py) ==
    LET gx == Gap(px, m.monitor_rect[1], m.monitor_rect[3])
        gy == Gap(py, m.monitor_rect[2], m.monitor_rect[4])
    IN  gx * gx + gy * gy

\* C6: _pick_monitor returns None only for an empty cache; else the first
\* monitor (in enumeration order) whose monitor_rect contains the point,
\* boundaries included; else the earliest monitor among those at the minimum
\* squared distance to the point.
C6_PickMonitor ==
    (pickOut # Pending) =>
        LET out == pickOut[2]
            ms == pickIn.monitors
            px == pickIn.px
            py == pickIn.py
            Has(i) == /\ px \in ms[i].monitor_rect[1]..ms[i].monitor_rect[3]
                      /\ py \in ms[i].monitor_rect[2]..ms[i].monitor_rect[4]
            inside == {i \in 1..Len(ms) : Has(i)}
            nearest == {i \in 1..Len(ms) :
                          \A j \in 1..Len(ms) :
                              RectDist2(ms[i], px, py) <= RectDist2(ms[j], px, py)}
            First(S) == CHOOSE i \in S : \A j \in S : i <= j
        IN  /\ (out = None) <=> (Len(ms) = 0)
            /\ inside # {} => out = <<ms[First(inside)]>>
            /\ (inside = {} /\ Len(ms) > 0) => out = <<ms[First(nearest)]>>

\* C6 witness: no monitor contains the point and two monitors tie for the
\* minimum distance; the earlier one was returned
C6_Witness ==
    /\ pickOut # Pending
    /\ Len(pickIn.monitors) = 2
    /\ \A i \in 1..2 : RectDist2(pickIn.monitors[i], pickIn.px, pickIn.py) = 9
    /\ pickOut = Returned(<<pickIn.monitors[1]>>)

\* the temperatures each source of the GPU chain delivered in the last sample
NvList ==
    IF sensors.nvapi = None THEN <<>>
    ELSE NvGetTemperatures(sensors.nvapi[1], hw.nv)

AdlList ==
    IF sensors.amdadl = None THEN <<>>
    ELSE AdlGetTemperatures(sensors.amdadl[1], hw.adl)

PdhList ==
    LET a == get_array(sensors.counters, hw.pdh, "gpu_temp")
        NotNone(v) == v # None
        kept == SelectSeq(a, NotNone)
    IN  [i \in 1..Len(kept) |-> to_celsius(kept[i])]

\* C1: the GPU temperature is the reading of the first source, in the order
\* NVAPI, ADL, PDH, that yields a temperature; a later source's reading
\* never changes it.
C1_GpuFallbackOrder ==
    (metrics # None) =>
        /\ NvList # <<>> => metrics.gpu_temp = FMean[NvList]
        /\ (NvList = <<>> /\ AdlList # <<>>)
               => metrics.gpu_temp = FMean[AdlList]
        /\ (NvList = <<>> /\ AdlList = <<>> /\ PdhList # <<>>)
               => metrics.gpu_temp = FMean[PdhList]

\* C1 witness: NVAPI yields nothing, ADL and PDH both yield and disagree;
\* the result is ADL's
C1_Witness ==
    /\ metrics # None
    /\ NvList = <<>> /\ AdlList # <<>> /\ PdhList # <<>>
    /\ FMean[AdlList] # FMean[PdhList]
    /\ metrics.gpu_temp = FMean[AdlList]

\* C2: the GPU temperature is None exactly when none of the three sources
\* yields a temperature, and sample() returns the four keys whatever the
\* sources do.
C2_GpuNoneIffNoSource ==
    (metrics # None) =>
        /\ (metrics.gpu_temp = None)
               <=> (NvList = <<>> /\ AdlList = <<>> /\ PdhList = <<>>)
        /\ DOMAIN metrics = {"cpu_temp", "cpu_usage", "gpu_temp", "gpu_usage"}

\* C2 witness: a present NVAPI monitor whose call fails, no ADL monitor, and
\* a PDH array holding only bad items: the result is None
C2_Witness ==
    /\ metrics # None
    /\ sensors.nvapi # None /\ Len(hw.nv) > 0
    /\ sensors.amdadl = None
    /\ "gpu_temp" \in sensors.counters /\ Len(hw.pdh.gpu_temp.items) > 0
    /\ metrics.gpu_temp = None

\* "loopback" in label or "_total" in label, on the lower-cased names that
\* occur
IsLoopbackOrTotal(name) == name \in {"Loopback Pseudo-Interface 1", "_Total"}

RECURSIVE SumQualifying(_)
SumQualifying(items) ==
    IF items = <<>> THEN <<0, 1>>
    ELSE IF items[1].CStatus = ERROR_SUCCESS /\ ~IsLoopbackOrTotal(items[1].szName)
         THEN FAdd[items[1].doubleValue, SumQualifying(Tail(items))]
         ELSE SumQualifying(Tail(items))

\* the total the claim describes for one key
ExpectedTotal(key) ==
    LET items == IF key \in net.counters /\ netHw[key].ok
                 THEN netHw[key].items ELSE <<>>
        Qualifies(it) == it.CStatus = ERROR_SUCCESS /\ ~IsLoopbackOrTotal(it.szName)
    IN  IF SelectSeq(items, Qualifies) = <<>> THEN None
        ELSE SumQualifying(items)

\* C10 (as claimed; the code violates it): sample() returns, without
\* raising, net_in and net_out as the sums over the interfaces whose reading
\* is not None and whose name is neither the loopback nor the aggregate, and
\* None when no interface qualifies.
C10_NetTotals ==
    (netOut # Pending) =>
        /\ netOut[1] = "returned"
        /\ netOut[2].net_in = ExpectedTotal("bytes_recv")
        /\ netOut[2].net_out = ExpectedTotal("bytes_sent")

\* the window moved less than 3 pixels on both axes since the last press
MovedLessThan3 ==
    /\ (root.x - win.drag_start_x) \in -2..2
    /\ (root.y - win.drag_start_y) \in -2..2

StripHeight ==
    IF timeFrame.reqheight >= 1 \/ timeFrame.height >= 1
    THEN (IF timeFrame.reqheight >= timeFrame.height
          THEN timeFrame.reqheight ELSE timeFrame.height)
    ELSE 1

C9_WasClick ==
    /\ [](disp # None =>
            \A t \in 1..4 :
                was_click(win, root, t)
                    <=> /\ (root.x - win.drag_start_x) \in (1 - t)..(t - 1)
                        /\ (root.y - win.drag_start_y) \in (1 - t)..(t - 1))
    /\ [][IF disp.phase = "idle" /\ disp'.phase = "down"
          THEN win'.drag_start_x = root.x /\ win'.drag_start_y = root.y
          ELSE win'.drag_start_x = win.drag_start_x
               /\ win'.drag_start_y = win.drag_start_y]_vars

\* C9 witness: a release on the time strip after the window moved exactly 2
\* pixels (a click for the default threshold 3), and the toggle is about to
\* run
C9_Witness ==
    /\ disp # None
    /\ disp.phase = "time_release"
    /\ root.y - win.drag_start_y = 2 /\ root.x = win.drag_start_x
    /\ was_click(win, root, DefaultThreshold)
    /\ ~was_click(win, root, 2)

\* a step in which _schedule_update ran: only it assigns _after_id
PollStep == app'.after_id # app.after_id

\* C7: sensors are polled periodically until exit. After start() there is
\* never more than one refresh timer pending; while the main loop runs
\* exactly one is pending and _after_id holds its id; every run of
\* _schedule_update makes one sample and one update of each graph component
\* and leaves that one timer; and, unless the application exits, polls keep
\* coming for ever.
C7_PeriodicPolling ==
    /\ [](Cardinality(RefreshTimers) <= 1)
    /\ [](mainloop = "running" =>
            /\ ~app.exiting
            /\ app.after_id # None
            /\ RefreshTimers = {[id |-> app.after_id[1],
                                 cb |-> "_schedule_update"]})
    /\ [][PollStep =>
            /\ metrics' = sample(sensors, hw')
            /\ \A c \in {"cpu", "gpu"} :
                  comps'[c].sample_count
                      = (comps[c].sample_count + 1) % SampleWindow
            /\ RefreshTimers' = {[id |-> app'.after_id[1],
                                  cb |-> "_schedule_update"]}]_vars
    /\ ([]<><<PollStep>>_vars) \/ <>app.exiting

\* C7 witness: the loop has polled often enough to put a non-zero average
\* into the CPU history, is one poll into the next window, and its refresh
\* timer is pending beside an exit timer
C7_Witness ==
    /\ mainloop = "running"
    /\ comps.cpu.history[HistoryLen] # <<0, 1>>
    /\ comps.cpu.sample_count = 1
    /\ Cardinality(RefreshTimers) = 1
    /\ ExitTimers # {}

\* C8: exit stops polling. Choosing Exit leaves an exit timer pending until
\* _exit runs; _exit runs only as such a timer's callback; once it has run
\* no refresh timer is pending, the main loop is over, and no sample and no
\* component update happens any more.
C8_ExitStopsPolling ==
    /\ [](exitChosen /\ ~app.exiting => ExitTimers # {})
    /\ [](app.exiting => RefreshTimers = {} /\ mainloop = "quit")
    /\ [][app.exiting =>
              /\ metrics' = metrics /\ comps' = comps
              /\ sensors' = sensors /\ app' = app]_vars
    /\ [][(~app.exiting /\ app'.exiting) =>
              \E t \in ExitTimers : t \notin timers']_vars

\* C8 witness: _exit has run in the middle of a sampling window, after at
\* least one full window, while a second Exit choice was still waiting
C8_Witness ==
    /\ app.exiting
    /\ comps.cpu.sample_count = 2
    /\ comps.gpu.history[HistoryLen] # <<0, 1>>
    /\ ExitTimers # {}

\* what update() must leave when it refreshes with the buffer buf
Refreshed(before, buf) ==
    [before EXCEPT !.sample_count = 0,
                   !.history = DequeAppend(before.history, mean(buf),
                                           before.history_len)]

\* what an update() call must have done, if the sample buffer is buf
UpdateDid(buf) ==
    LET r == compOut[2]
    IN  /\ r.returns <=> (compCalls = 0)
        /\ r.returns <=> (r.refreshed = 1)
        /\ r.refreshed \in {0, 1}
        /\ r.returns => comp = Refreshed(r.before, buf)
        /\ ~r.returns =>
              comp = [r.before EXCEPT !.sample_count = r.before.sample_count + 1]

\* C11 (as claimed; the code violates it): update() returns True exactly on
\* every sample_window-th call, and then resets _sample_count, appends to
\* the history the mean of the most recent up to sample_window non-None
\* samples and runs _update once; any other call changes _sample_count only.
C11_AsClaimed == (compOut # Pending) => UpdateDid(compRecent)

\* the sample buffer: the non-None samples, after the 0.0 it starts with
\* until sample_window samples have pushed that out
SeededRecent ==
    IF Len(compRecent) < comp.sample_window
    THEN << <<0, 1>> >> \o compRecent
    ELSE compRecent

\* C11 (amended): as claimed, but the buffer whose mean is appended is the
\* most recent up to sample_window non-None samples preceded by the initial
\* 0.0 while fewer than sample_window non-None samples have been added.
C11_UpdateRefresh ==
    /\ (comp # None) => comp.samples = SeededRecent
    /\ (compOut # Pending) => UpdateDid(compOut[2].before.samples)

\* C11 witness: a refresh on the second call of a window of two, with one
\* sample of 50 in the buffer beside the initial 0.0 (the mean is 25)
C11_Witness ==
    /\ compOut # Pending
    /\ compOut[2].returns
    /\ comp.sample_window = 2
    /\ comp.samples = << <<0, 1>>, <<50, 1>> >>
    /\ comp.history[Len(comp.history)] = <<25, 1>>

\* the four edge distances _apply_snap computes for the call in snapIn
SnapDist ==
    [l |-> Abs(snapIn.x - snapIn.work_rect[1]),
     r |-> Abs((snapIn.x + snapIn.w) - snapIn.work_rect[3]),
     t |-> Abs(snapIn.y - snapIn.work_rect[2]),
     b |-> Abs((snapIn.y + snapIn.h) - snapIn.work_rect[4])]

\* C12: edge-snap tie-breaking. The target names at most one edge per
\* axis; when both edges of an axis are within 16 pixels the window snaps
\* to the strictly nearer one, and to LEFT (horizontally) or TOP
\* (vertically) when the two distances are equal.
C12_SnapTieBreak ==
    (snapOut # Pending) =>
        LET out == snapOut[2]
            d == SnapDist
        IN  /\ out[3] \in SnapTarget
            /\ (d.l <= 16 /\ d.r <= 16) =>
                  IF d.l <= d.r
                  THEN HorizEdge(out[3]) = "left"
                       /\ out[1] = snapIn.work_rect[1]
                  ELSE HorizEdge(out[3]) = "right"
                       /\ out[1] = snapIn.work_rect[3] - snapIn.w
            /\ (d.t <= 16 /\ d.b <= 16) =>
                  IF d.t <= d.b
                  THEN VertEdge(out[3]) = "top"
                       /\ out[2] = snapIn.work_rect[2]
                  ELSE VertEdge(out[3]) = "bottom"
                       /\ out[2] = snapIn.work_rect[4] - snapIn.h

\* C12 witness: a call with a tie on both axes (5 pixels from the left and
\* right edges, 10 from the top and bottom), which went to the top-left
C12_Witness ==
    /\ snapOut # Pending
    /\ SnapDist.l = 5 /\ SnapDist.r = 5
    /\ SnapDist.t = 10 /\ SnapDist.b = 10
    /\ snapOut[2][3] = "topleft"

\* the work area _on_drag snaps to for the motion in dragIn (None when no
\* monitor is picked), and where the pointer less the press offset is
DragWork ==
    LET m == _pick_monitor(dragIn.w.monitors, dragIn.ex, dragIn.ey)
    IN  IF m = None THEN None ELSE <<m[1].work_rect>>

DragFree ==
    <<dragIn.ex - dragIn.w.drag_off_x, dragIn.ey - dragIn.w.drag_off_y>>

\* C13: snapping changes only the axis that snaps. When _on_drag has
\* handled a motion, the window is at the pointer less the press offset on
\* every axis whose edges of the picked work area are both further than 16
\* pixels away, and on every axis the target does not name; with target
\* NONE the position is exactly the pointer less the press offset; and
\* when no monitor is picked the target is NONE and nothing is snapped.
C13_SnapOnlySnappingAxis ==
    (dragOut # Pending) =>
        LET out == dragOut[2]
            t == out.win.snap_target
            f == DragFree
            wr == DragWork
        IN  /\ HorizEdge(t) = "none" => out.root.x = f[1]
            /\ VertEdge(t) = "none" => out.root.y = f[2]
            /\ t = "none" => (out.root.x = f[1] /\ out.root.y = f[2])
            /\ wr = None => (t = "none" /\ out.root.x = f[1] /\ out.root.y = f[2])
            /\ wr # None =>
                  /\ (/\ Abs(f[1] - wr[1][1]) > 16
                      /\ Abs((f[1] + dragIn.r.w) - wr[1][3]) > 16)
                        => (out.root.x = f[1] /\ HorizEdge(t) = "none")
                  /\ (/\ Abs(f[2] - wr[1][2]) > 16
                      /\ Abs((f[2] + dragIn.r.h) - wr[1][4]) > 16)
                        => (out.root.y = f[2] /\ VertEdge(t) = "none")
            /\ out.root.w = dragIn.r.w /\ out.root.h = dragIn.r.h

\* C13 witness: a motion that snapped the window to the top edge only,
\* moving it vertically, with the press offset in play on the free axis
C13_Witness ==
    /\ dragOut # Pending
    /\ dragOut[2].win.snap_target = "top"
    /\ dragIn.w.drag_off_x = 10
    /\ dragOut[2].root.x = dragIn.ex - 10
    /\ dragOut[2].root.y # DragFree[2]

\* the single monitor _refresh_monitor_cache falls back to
FallbackMonitors ==
    <<Monitor(<<0, 0, Screen[1], Screen[2]>>, <<0, 0, Screen[1], Screen[2]>>)>>

\* C14: after any _start_drag the monitor cache is non-empty: it holds what
\* the enumeration delivered or, when that failed or delivered nothing, the
\* single monitor (0, 0, screen width, screen height). So while a press is
\* being handled (button held, or a release handler still to run) every
\* pointer position picks a monitor, and the cache is empty only as long
\* as no press has been handled.
C14_MonitorCacheAfterPress ==
    /\ (disp.phase # "idle") =>
          /\ win.monitors # <<>>
          /\ \A ex \in PointerXs, ey \in PointerYs :
                _pick_monitor(win.monitors, ex, ey) # None
    /\ (win.monitors = <<>>) =>
          win = set_exit_callback(OverlayWindow_init, "_exit")
    /\ (win.monitors # <<>>) =>
          \/ win.monitors \in MonitorLayouts
          \/ win.monitors = FallbackMonitors

\* C14 witness: the enumeration delivered nothing at the press, and a drag
\* then moved the window by snapping it to the fallback monitor
C14_Witness ==
    /\ disp.phase = "down"
    /\ win.monitors = FallbackMonitors
    /\ win.snap_target # "none"
    /\ root.x # win.drag_start_x

CpuReadings == get_dict(sensors.counters, hw.pdh, "cpu_temp")

CpuRemaining ==
    {i \in 1..Len(CpuReadings) :
        CpuReadings[i][2] # None /\ CpuReadings[i][2] # <<0, 1>>}

\* value above 200: Kelvin, less 273.15; otherwise Celsius as it is
CpuConverted(i) ==
    LET v == CpuReadings[i][2]
    IN  IF v[1] > 200 * v[2] THEN Frac[20 * v[1] - 5463 * v[2], 20 * v[2]]
        ELSE v

\* C16: _cpu_temperature discards the readings that are None or zero,
\* converts each remaining one (above 200: Kelvin, reduced by 273.15; 200
\* or below: kept), and returns the converted value of the first remaining
\* zone whose lower-cased name contains "cpu", otherwise the mean of all
\* converted readings, and None when no reading remains.
C16_CpuTemperature ==
    (metrics # None) =>
        LET cpus == {i \in CpuRemaining : HasCpu(CpuReadings[i][1])}
            first == CHOOSE i \in cpus : \A j \in cpus : i <= j
            n == Cardinality(CpuRemaining)
            conv == [k \in 1..n |->
                        CpuConverted(CHOOSE i \in CpuRemaining :
                            Cardinality({j \in CpuRemaining : j <= i}) = k)]
        IN  /\ (CpuRemaining = {}) <=> (metrics.cpu_temp = None)
            /\ (cpus # {}) => metrics.cpu_temp = CpuConverted(first)
            /\ (CpuRemaining # {} /\ cpus = {}) =>
                  metrics.cpu_temp = FMean[conv]

\* C16 witness: the first CPU zone read zero and was discarded, so the
\* second one's 330 K came back as 56.85
C16_Witness ==
    /\ metrics # None
    /\ Len(CpuReadings) = 3
    /\ CpuReadings[2] = <<"tz.cpu0", <<0, 1>>>>
    /\ CpuReadings[3] = <<"tz.cpu1", <<330, 1>>>>
    /\ metrics.cpu_temp = <<1137, 20>>

\* C17: PDHQuery reports failures as empty results. A failed add_counter
\* returns None and leaves the registered keys as they were; get_value
\* returns None for an unregistered key and when the read or the value's
\* CStatus is not success, the value otherwise; get_array and get_dict
\* return the empty list / dict for an unregistered key or a failed read;
\* otherwise an item whose status is not success is None in its position
\* (get_array) or under its lower-cased name (get_dict, the last item of a
\* name counting), and every other item is its value.
C17_PdhFailuresAreEmpty ==
    (pdhOut # Pending) =>
        LET out == pdhOut[2]
            a == pdhIn.answer
            registered == pdhIn.key \in pdhIn.before
            Value(item) == IF item.CStatus = ERROR_SUCCESS
                           THEN item.doubleValue ELSE None
        IN  /\ (pdhIn.op = "add_counter") =>
                  IF a # ERROR_SUCCESS
                  THEN out = None /\ pdhQuery.counters = pdhIn.before
                  ELSE /\ out # None
                       /\ pdhQuery.counters = pdhIn.before \cup {pdhIn.key}
            /\ (pdhIn.op # "add_counter") => pdhQuery.counters = pdhIn.before
            /\ (pdhIn.op = "get_value") =>
                  IF ~registered \/ ~a.ok \/ a.CStatus # ERROR_SUCCESS
                  THEN out = None
                  ELSE out = a.doubleValue
            /\ (pdhIn.op = "get_array") =>
                  IF ~registered \/ ~a.ok THEN out = <<>>
                  ELSE /\ Len(out) = Len(a.items)
                       /\ \A i \in 1..Len(a.items) : out[i] = Value(a.items[i])
            /\ (pdhIn.op = "get_dict") =>
                  IF ~registered \/ ~a.ok THEN out = <<>>
                  ELSE /\ {out[i][1] : i \in 1..Len(out)}
                            = {Lower(a.items[i].szName) : i \in 1..Len(a.items)}
                       /\ \A i, j \in 1..Len(out) : out[i][1] = out[j][1] => i = j
                       /\ \A i \in 1..Len(a.items) :
                            (\A j \in (i + 1)..Len(a.items) :
                                Lower(a.items[j].szName) # Lower(a.items[i].szName))
                            => DictGet(out, Lower(a.items[i].szName))
                                 = Value(a.items[i])

\* C17 witness: get_array on a registered key, where PDH delivered an item
\* with a failing status before a healthy one
C17_Witness ==
    /\ pdhOut # Pending
    /\ pdhIn.op = "get_array"
    /\ pdhIn.key \in pdhIn.before
    /\ pdhOut[2] = <<None, <<45, 1>>>>

\* C18: a vendor GPU library that cannot be loaded or initialised never
\* prevents the sensor backend from being built: importing hwmon.sensors
\* and constructing SensorBackend succeed whatever the two libraries do,
\* and a library whose initialisation raised is left out of the backend.
C18_BackendAlwaysBuilt ==
    (build.out # Pending) =>
        /\ build.out[1] = "returned"
        /\ (~build.env.adl.loaded \/ build.env.adl.create_status # ADL_OK)
              => build.out[2].amdadl = None

\* C19: _apply_snap is idempotent, so a release just after a drag names
\* the drag's target. Applying _apply_snap to the position and size
\* _on_drag left, with the same work area, gives that position and the
\* drag's target again; and _on_release at the same pointer position
\* computes the target the drag computed.
C19_SnapIdempotent ==
    /\ (dragOut # Pending /\ DragWork # None) =>
          LET out == dragOut[2]
          IN  _apply_snap(out.root.x, out.root.y, out.root.w, out.root.h,
                          DragWork[1])
                = <<out.root.x, out.root.y, out.win.snap_target>>
    /\ (relOut # Pending) =>
          relOut[2].win.snap_target = dragOut[2].win.snap_target

\* C19 witness: the drag moved a window with both edges of each axis in
\* reach to the bottom-right corner, and the release has been handled
C19_Witness ==
    /\ relOut # Pending
    /\ dragIn.r.w = 190
    /\ dragOut[2].win.snap_target = "bottomright"
    /\ dragOut[2].root.x # DragFree[1]
    /\ dragOut[2].root.y # DragFree[2]
    /\ relOut[2].win.snap_target = "bottomright"

\* a step in which _on_release runs
IsRelease == disp.phase = "down" /\ disp'.phase # "down"

\* C20: _on_release generates <<WindowSnapChanged>> if and only if its
\* target differs from the target recorded at the previous release (NONE
\* before the first one), so releases that keep the target generate
\* nothing; no other handler, a drag in particular, generates the event or
\* touches the record; and after every release, until the next drag,
\* _last_released_snap_target equals _snap_target.
C20_SnapChangedOnRelease ==
    /\ [][IsRelease =>
            /\ disp'.generated
                  <=> (win'.snap_target # win.last_released_snap_target)
            /\ win'.last_released_snap_target = win'.snap_target]_vars
    /\ [][~IsRelease =>
            /\ ~disp'.generated
            /\ win'.last_released_snap_target
                  = win.last_released_snap_target]_vars
    /\ [](disp.phase # "down"
            => win.last_released_snap_target = win.snap_target)

\* C20 witness: a release has just generated the event for a window that
\* left the edge it was released at before
C20_Witness ==
    /\ disp.phase # "down"
    /\ disp.generated
    /\ win.last_released_snap_target = "none"

====
